---- MODULE Spec2Model ----
(***************************************************************************)
(* Model of the account pool and the upstream forwarders of NullGravity   *)
(* (backend/services/cloudcode_proxy.py, backend/services/                *)
(* openai_compat.py).                                                     *)
(*                                                                         *)
(* Account ids are the integers 1..n in the order of Account.email (the   *)
(* ORDER BY of refresh); 0 stands for Python's None.  Session             *)
(* fingerprints are 1..NumSessions, 0 is "no request given".  Time is the *)
(* value of time.time() in seconds.                                       *)
(*                                                                         *)
(* Every coroutine is cut at its awaits: the settings read, the wait for   *)
(* the pool lock, the store reads made while the lock is held             *)
(* (_read_account), the cache_first sleep, the upstream send, the store    *)
(* query of refresh.  The code between two awaits is one step.            *)
(***************************************************************************)
EXTENDS Integers, Sequences, FiniteSets, TLC

\* ------------------------------------------------------------------ bounds
MaxStarts == 3
MaxCycles == 2
MaxBuckets == 2
MaxFrames == 3
MaxToolCalls == 2
\* _onboard_user: max_polls, and the sleep before each poll.
MAX_POLLS == 12
POLL_SECS == 5
NumAccounts == 2
NumSessions == 3
NumTasks == 2
MaxTicks == 1
MaxChanges == 1
MaxDeletes == 2
RetryAccounts == 6
MaxOpen == 2
MaxCooldown == 60
StartTime == 1000

\* AccountPool.MAX_BINDINGS (1000 in the source): the model keeps the code's
\* comparisons with it and scales the number, so that NumSessions exceeds it.
MAX_BINDINGS == 2

\* ------------------------------------------------------- program constants
BINDING_TTL == 1800
RATE_LIMIT_SECS == 60
MAX_RETRY_CAP == 5
STAGGER_DELAY == 3
DEFAULT_INTERVAL == 15
BOOT_SLEEP == 5
OFF_SLEEP == 30
POLL_SLEEP == 60
BACKOFF_SLEEP == 60

\* The clock advances by one of these steps: a rate-limit window, or just over
\* the binding TTL.
TickSteps == {RATE_LIMIT_SECS, BINDING_TTL + 1}

None == 0
NoSession == 0
NoTask == 0

AllAccounts == 1..(IF RetryAccounts > NumAccounts THEN RetryAccounts ELSE NumAccounts)
Sessions == 1..NumSessions
Tasks == 1..NumTasks
Modes == {"cache_first", "balance", "performance"}
StickyModes == {"cache_first", "balance"}
Surfaces == {"v1", "v1stream", "native", "buffered"}
V1Surfaces == {"v1", "v1stream"}
\* What the upstream answers to one send: a status (with the body class that
\* the forwarders look for), or an exception of the transport.
Responses == {"200", "401", "403", "403quota", "404", "429", "500", "503",
              "503capacity", "timeout", "error"}

VARIABLES
    db_accounts,        \* stored Account rows (ids)
    db_eligible,        \* rows with status = active, not forbidden, not disabled
    db_token,           \* rows owning an antigravity credential with an access token
    pool_schedule_mode, \* AppSettings "pool_schedule_mode"
    pool_cooldown,      \* AppSettings "pool_cooldown", in seconds
    account_ids,        \* AccountPool._account_ids
    current_index,      \* AccountPool._current_index
    exhausted,          \* AccountPool._exhausted
    rate_limited,       \* AccountPool._rate_limited
    session_bindings,   \* AccountPool._session_bindings
    binding_timestamps, \* AccountPool._binding_timestamps
    last_request_time,  \* AccountPool._last_request_time
    open_streams,       \* per task: upstream sessions / responses it opened for streaming, not closed yet
    lock,               \* AccountPool._lock: the task holding it, or NoTask
    now,                \* time.time()
    ticks,              \* number of clock steps taken
    changes,            \* number of changes made to the store and the settings
    task,               \* per task: position and locals of the running coroutine
    recorded,           \* the histories a specification keeps (fixed by its Init)
    rl_marked,          \* history: account -> deadline set by the last rotate(id, "rate_limited")
    last_ret,           \* history: session -> account returned by its last get_current(request)
    http_client,        \* cloudcode_proxy._http_client: a client, or None
    proxy_server,       \* cloudcode_proxy._proxy_server: a server, or None
    proxy_running,      \* _proxy_state["running"]
    open_clients,       \* the httpx clients created and not closed
    live_servers,       \* the uvicorn servers created and not told to exit
    clients_made,       \* number of httpx clients created so far
    db_settings,        \* AppSettings rows of the refresher: key -> value
    db_disabled,        \* Account rows with is_disabled
    db_creds,           \* OAuthCredential rows: <<account, client_type>> -> fields
    rf,                 \* the refresher task: position and locals of start_auto_refresh_scheduler
    last_sync,          \* the last call of sync_account_info: what it found and what it stored
    tool_schema,        \* a tool declaration converted for the upstream: the schema given and the one sent
    model_call,         \* a call of apply_model_mapping: the rules stored, the model asked for, the pair returned
    astream,            \* stream_anthropic: its locals and the events it has emitted
    onboard             \* a call of _sync_gemini_cli: its position, its locals and the credential's project_id

vars == <<db_accounts, db_eligible, db_token, pool_schedule_mode, pool_cooldown,
          account_ids, current_index, exhausted, rate_limited, session_bindings,
          binding_timestamps, last_request_time, open_streams, lock, now, ticks,
          changes, task, recorded, rl_marked, last_ret, http_client, proxy_server,
          proxy_running, open_clients, live_servers, clients_made, db_settings,
          db_disabled, db_creds, rf, last_sync, onboard, tool_schema, model_call, astream>>

dbVars == <<db_accounts, db_eligible, db_token, pool_schedule_mode, pool_cooldown>>
poolVars == <<account_ids, current_index, exhausted, rate_limited, session_bindings,
              binding_timestamps>>
clockVars == <<now, ticks, changes, recorded>>
sendVars == <<last_request_time, open_streams>>
proxyVars == <<http_client, proxy_server, proxy_running, open_clients, live_servers,
               clients_made>>
\* The state outside the pool and its forwarders.
refresherVars == <<db_settings, db_disabled, db_creds, rf>>
\* The calls followed on their own.
callVars == <<onboard, tool_schema, model_call, astream>>
svcVars == <<proxyVars, refresherVars, last_sync, callVars>>
\* The state of the server around such a call.
serverVars == <<dbVars, poolVars, lock, clockVars, sendVars, task, rl_marked, last_ret,
                proxyVars, refresherVars, last_sync>>

\* --------------------------------------------------------------- helpers
Min(a, b) == IF a < b THEN a ELSE b
Max(a, b) == IF a > b THEN a ELSE b

Range(s) == {s[i] : i \in DOMAIN s}

Restrict(f, S) == [k \in S |-> f[k]]

Put(f, k, v) == [x \in DOMAIN f \cup {k} |-> IF x = k THEN v ELSE f[x]]

SetMax(S) == CHOOSE x \in S : \A y \in S : y <= x

Remove(f, k) == [x \in DOMAIN f \ {k} |-> f[x]]

EmptyMap == [x \in {} |-> 0]

RECURSIVE SortedSeq(_)
SortedSeq(S) ==
    IF S = {} THEN <<>>
    ELSE LET m == CHOOSE x \in S : \A y \in S : x <= y
         IN <<m>> \o SortedSeq(S \ {m})

IndexOf(s, a) == CHOOSE i \in DOMAIN s : s[i] = a /\ \A j \in DOMAIN s : s[j] = a => i <= j

\* The pool's runtime state as one value, for the operators below.
PoolState ==
    [ids |-> account_ids, idx |-> current_index, exh |-> exhausted,
     rl |-> rate_limited, bind |-> session_bindings, ts |-> binding_timestamps]

\* -------------------------------------------------- AccountPool, pure parts

\* _read_account: the account row with its antigravity credential, or None.
read_account(aid) == aid \in db_accounts /\ aid \in db_token

\* _is_available
is_available(p, aid, tnow) ==
    /\ aid \notin p.exh
    /\ ~(aid \in DOMAIN p.rl /\ p.rl[aid] > tnow)

\* _find_available_fallback with the bug of looking at the exhausted marks only.
find_available_fallback_ignores_rate_limit(p, tnow) ==
    LET ok == {i \in DOMAIN p.ids : p.ids[i] \notin p.exh}
    IN IF ok = {} THEN None
       ELSE p.ids[CHOOSE i \in ok : \A j \in ok : i <= j]

\* _find_available_fallback: the first available account in list order, or None.
find_available_fallback(p, tnow) ==
    LET ok == {i \in DOMAIN p.ids :
                  p.ids[i] \notin p.exh
                  /\ (p.ids[i] \notin DOMAIN p.rl \/ p.rl[p.ids[i]] <= tnow)}
    IN IF ok = {} THEN None
       ELSE p.ids[CHOOSE i \in ok : \A j \in ok : i <= j]

\* Counter(self._session_bindings.values())[aid]
binding_count(p, aid) == Cardinality({k \in DOMAIN p.bind : p.bind[k] = aid})

\* _assign_least_loaded with the bug of taking the first non-exhausted account,
\* whatever its load.
assign_least_loaded_ignores_load(p) ==
    LET free == {i \in DOMAIN p.ids : p.ids[i] \notin p.exh}
        cand == IF free = {} THEN DOMAIN p.ids ELSE free
    IN p.ids[CHOOSE i \in cand : \A j \in cand : i <= j]

\* _assign_least_loaded for a non-empty list: the non-exhausted accounts (all of
\* them when every one is exhausted), stably sorted by binding count; the first.
assign_least_loaded(p) ==
    LET free == {i \in DOMAIN p.ids : p.ids[i] \notin p.exh}
        cand == IF free = {} THEN DOMAIN p.ids ELSE free
        best == CHOOSE i \in cand :
                    \A j \in cand :
                        \/ binding_count(p, p.ids[i]) < binding_count(p, p.ids[j])
                        \/ (binding_count(p, p.ids[i]) = binding_count(p, p.ids[j]) /\ i <= j)
    IN p.ids[best]

\* sorted(ts, key=ts.get)[:n] : a set of n keys none of which is newer than a
\* key left behind (equal timestamps: either may come first).
OldestSets(ts, n) ==
    {R \in SUBSET DOMAIN ts :
        /\ Cardinality(R) = Min(n, Cardinality(DOMAIN ts))
        /\ \A r \in R : \A k \in DOMAIN ts \ R : ts[r] <= ts[k]}

\* _clean_stale_bindings: the possible pool states after it.
clean_stale_bindings(p, tnow) ==
    LET expired == {k \in DOMAIN p.ts : tnow - p.ts[k] > BINDING_TTL}
        bind1 == Restrict(p.bind, DOMAIN p.bind \ expired)
        ts1 == Restrict(p.ts, DOMAIN p.ts \ expired)
        over == Cardinality(DOMAIN bind1) - MAX_BINDINGS
    IN IF over > 0
       THEN {[p EXCEPT !.bind = Restrict(bind1, DOMAIN bind1 \ R),
                       !.ts = Restrict(ts1, DOMAIN ts1 \ R)] : R \in OldestSets(ts1, over)}
       ELSE {[p EXCEPT !.bind = bind1, !.ts = ts1]}

\* What a locked section of get_current does next: return a value, raise,
\* release the lock and sleep, or await _read_account(acc) at the given stage.
\* `bound` is the local bound_aid when the section sets it.
Ret(p, aid) ==
    [p |-> p, out |-> "return", acc |-> aid, stage |-> "none", wake |-> 0, bound |-> None]
Raise(p) ==
    [p |-> p, out |-> "raise", acc |-> None, stage |-> "none", wake |-> 0, bound |-> None]
Sleep(p, until) ==
    [p |-> p, out |-> "sleep", acc |-> None, stage |-> "none", wake |-> until, bound |-> None]
ReadNext(p, aid, stage) ==
    [p |-> p, out |-> "read", acc |-> aid, stage |-> stage, wake |-> 0, bound |-> None]

\* get_current, "Final fallback: clear all marks and try first".
final_fallback(p) ==
    LET p1 == [p EXCEPT !.exh = {}, !.rl = EmptyMap]
    IN IF p1.ids # <<>> THEN ReadNext([p1 EXCEPT !.idx = 0], p1.ids[1], "final")
       ELSE Ret(p1, None)

\* get_current, "No binding or binding invalid - assign least loaded".
\* With an empty list _assign_least_loaded indexes _account_ids[0] and raises.
tail_assign(p, fp, tnow) ==
    IF p.ids = <<>> THEN Raise(p)
    ELSE LET new_aid == assign_least_loaded(p)
         IN ReadNext([p EXCEPT !.bind = Put(p.bind, fp, new_aid),
                               !.ts = Put(p.ts, fp, tnow)], new_aid, "tail")

\* get_current, cache_first: "If exhausted (permanent), reassign".
exhausted_reassign(p, fp, bound, tnow) ==
    IF bound \in p.exh
    THEN IF p.ids = <<>> THEN Raise(p)
         ELSE LET new_aid == assign_least_loaded(p)
              IN ReadNext([p EXCEPT !.bind = Put(p.bind, fp, new_aid),
                                    !.ts = Put(p.ts, fp, tnow)], new_aid, "reassign")
    ELSE tail_assign(p, fp, tnow)

\* get_current, cache_first: "After wait, try again".
after_wait(p, bound) ==
    ReadNext([p EXCEPT !.rl = Remove(p.rl, bound)], bound, "after_wait")

\* "Bound account is unavailable" with the bug of hot-switching in every mode.
bound_unavailable_never_waits(p, mode, fp, bound, tnow, clock) ==
    LET fb == find_available_fallback(p, clock)
    IN IF fb # None THEN ReadNext(p, fb, "fallback")
       ELSE tail_assign(p, fp, tnow)

\* get_current, "Bound account is unavailable".  tnow is the local `now` of the
\* call, clock the value time.time() has when the fallback is searched.
bound_unavailable(p, mode, fp, bound, tnow, clock) ==
    LET fb == find_available_fallback(p, clock)
    IN IF mode = "cache_first"
       THEN IF bound \in DOMAIN p.rl
            THEN IF p.rl[bound] - tnow > 0 THEN Sleep(p, p.rl[bound])
                 ELSE after_wait(p, bound)
            ELSE exhausted_reassign(p, fp, bound, tnow)
       ELSE IF fb # None THEN ReadNext(p, fb, "fallback")
            ELSE tail_assign(p, fp, tnow)

\* The section for mode "performance" with the bug of keeping the marks when
\* no account is available.
current_performance_keeps_marks(p, tnow) ==
    LET avail == {a \in Range(p.ids) : is_available(p, a, tnow)}
        pick == IF avail = {} THEN Range(p.ids) ELSE avail
    IN {ReadNext(p, a, "performance") : a \in pick}

\* get_current, the section for mode "performance" or request = None.
\* random.choice is any member of the list it is given.
current_performance(p, tnow) ==
    LET avail == {a \in Range(p.ids) : is_available(p, a, tnow)}
        p1 == IF avail = {} THEN [p EXCEPT !.exh = {}, !.rl = EmptyMap] ELSE p
        pick == IF avail = {} THEN Range(p.ids) ELSE avail
    IN {ReadNext(p1, a, "performance") : a \in pick}

\* The section for a bound session with the bug of never looking at the binding.
current_bound_forgets(p, mode, fp, tnow) ==
    tail_assign([p EXCEPT !.ts = Put(p.ts, fp, tnow)], fp, tnow)

\* get_current, the section for a session bound to a listed account.
current_bound(p, mode, fp, tnow) ==
    LET bound == p.bind[fp]
        p1 == [p EXCEPT !.ts = Put(p.ts, fp, tnow)]
    IN IF is_available(p1, bound, tnow) THEN ReadNext(p1, bound, "bound")
       ELSE bound_unavailable(p1, mode, fp, bound, tnow, tnow)

\* get_current from "async with self._lock" to its first await or return: the
\* set of possible outcomes.
get_current_enter(p0, mode, fp, tnow) ==
    IF p0.ids = <<>> THEN {Ret(p0, None)}
    ELSE UNION {
        IF mode = "performance" \/ fp = NoSession
        THEN current_performance(p, tnow)
        ELSE IF fp \in DOMAIN p.bind /\ p.bind[fp] \in Range(p.ids)
             THEN {[current_bound(p, mode, fp, tnow) EXCEPT !.bound = p.bind[fp]]}
             ELSE {tail_assign(p, fp, tnow)}
        : p \in clean_stale_bindings(p0, tnow)}

\* get_current after "acc = await self._read_account(...)" gave None ("if acc:"
\* not taken) at the given stage.
get_current_read_failed(p, stage, mode, fp, bound, tnow, clock) ==
    CASE stage = "performance" -> Ret(p, None)
      [] stage = "bound" -> bound_unavailable(p, mode, fp, bound, tnow, clock)
      [] stage = "after_wait" -> exhausted_reassign(p, fp, bound, tnow)
      [] stage = "reassign" -> tail_assign(p, fp, tnow)
      [] stage = "fallback" -> tail_assign(p, fp, tnow)
      [] stage = "tail" -> final_fallback(p)
      [] stage = "final" -> Ret(p, None)

\* rotate with the bug of a deadline that is the time of the call.
rotate_mark_no_window(p, failed, reason, tnow) ==
    LET n == Max(Len(p.ids), 1)
        p1 == IF reason = "rate_limited"
              THEN [p EXCEPT !.rl = Put(p.rl, failed, tnow)]
              ELSE [p EXCEPT !.exh = p.exh \cup {failed}]
    IN [p1 EXCEPT !.idx = (p.idx + 1) % n]

\* AccountPool.rotate, the locked section.
rotate_mark(p, failed, reason, tnow) ==
    LET n == Max(Len(p.ids), 1)
        p1 == IF reason = "rate_limited"
              THEN [p EXCEPT !.rl = Put(p.rl, failed, tnow + RATE_LIMIT_SECS)]
              ELSE [p EXCEPT !.exh = p.exh \cup {failed}]
    IN [p1 EXCEPT !.idx = (p.idx + 1) % n]

\* AccountPool.refresh: the store query.
refresh_query == SortedSeq({a \in db_accounts : a \in db_eligible})

\* refresh with the bug of forgetting every exhausted mark.
refresh_apply_forgets_exhausted(p, ids, tnow) ==
    LET valid == Range(ids)
        bind1 == Restrict(p.bind, {k \in DOMAIN p.bind : p.bind[k] \in valid})
    IN [ids |-> ids,
        idx |-> IF p.idx >= Len(ids) THEN 0 ELSE p.idx,
        exh |-> {},
        rl |-> Restrict(p.rl, {k \in DOMAIN p.rl : k \in valid /\ p.rl[k] > tnow}),
        bind |-> bind1,
        ts |-> Restrict(p.ts, {k \in DOMAIN p.ts : k \in DOMAIN bind1})]

\* refresh with the bug of leaving the cursor where it was.
refresh_apply_keeps_cursor(p, ids, tnow) ==
    LET valid == Range(ids)
        bind1 == Restrict(p.bind, {k \in DOMAIN p.bind : p.bind[k] \in valid})
    IN [ids |-> ids,
        idx |-> p.idx,
        exh |-> p.exh \cap valid,
        rl |-> Restrict(p.rl, {k \in DOMAIN p.rl : k \in valid /\ p.rl[k] > tnow}),
        bind |-> bind1,
        ts |-> Restrict(p.ts, {k \in DOMAIN p.ts : k \in DOMAIN bind1})]

\* AccountPool.refresh, the locked section, given the ids the query returned.
refresh_apply(p, ids, tnow) ==
    LET valid == Range(ids)
        bind1 == Restrict(p.bind, {k \in DOMAIN p.bind : p.bind[k] \in valid})
    IN [ids |-> ids,
        idx |-> IF p.idx >= Len(ids) THEN 0 ELSE p.idx,
        exh |-> p.exh \cap valid,
        rl |-> Restrict(p.rl, {k \in DOMAIN p.rl : k \in valid /\ p.rl[k] > tnow}),
        bind |-> bind1,
        ts |-> Restrict(p.ts, {k \in DOMAIN p.ts : k \in DOMAIN bind1})]

\* AccountPool.size
size == Len(account_ids)

\* ------------------------------------------------------------------ tasks

\* A task that runs no coroutine.
TaskIdle ==
    [pc |-> "idle", surface |-> "none", fp |-> NoSession, attempt |-> 0,
     max_retries |-> 0, account |-> None, status |-> "none", reason |-> "none",
     after |-> "none", mode |-> "none", gc_fp |-> NoSession, ret |-> "none",
     stage |-> "none", cand |-> None, bound |-> None, nw |-> 0, wake_at |-> 0,
     rotated |-> None, ids |-> <<>>, sends |-> 0, n0 |-> 0,
     resp |-> "none", result |-> "none"]

\* The forwarder returns a response with the given status to its client.
\* (history: the surface, the attempt, the upstream's last answer and the status
\* returned are kept until the task's next request.)
Finish(tk, status) ==
    IF "result" \in recorded
    THEN [TaskIdle EXCEPT !.surface = tk.surface, !.attempt = tk.attempt,
                          !.max_retries = tk.max_retries, !.sends = tk.sends,
                          !.resp = tk.resp, !.result = status]
    ELSE TaskIdle

\* The status line of an upstream answer.
StatusOf(resp) ==
    CASE resp = "403quota" -> "403"
      [] resp = "503capacity" -> "503"
      [] OTHER -> resp

\* The locals of get_current, dropped when it returns.
ClearCall(tk) ==
    [tk EXCEPT !.mode = "none", !.gc_fp = NoSession, !.ret = "none", !.stage = "none",
               !.cand = None, !.bound = None, !.nw = 0, !.wake_at = 0]

\* "await pool.get_current(request)": up to the settings read of the mode.
CallGetCurrent(tk, fp, ret) ==
    [ClearCall(tk) EXCEPT !.pc = "gc_mode", !.gc_fp = fp, !.ret = ret]

\* The forwarders' loop with the bug of a bound that never ends it.
NextAttempt_no_limit(tk) ==
    [CallGetCurrent(tk, tk.fp, "fwd") EXCEPT
        !.attempt = tk.attempt + 1, !.account = None, !.status = "none",
        !.reason = "none", !.after = "none", !.rotated = None]

\* The forwarders' "continue": the next iteration of
\* "for attempt in range(max(max_retries, 1))", or the loop's end (503 / 529).
NextAttempt(tk) ==
    IF tk.attempt + 1 < Max(tk.max_retries, 1)
    THEN [CallGetCurrent(tk, tk.fp, "fwd") EXCEPT
              !.attempt = tk.attempt + 1, !.account = None, !.status = "none",
              !.reason = "none", !.after = "none", !.rotated = None]
    ELSE Finish(tk, "503")

\* chat_completions / anthropic_messages after the handler returned `res`:
\* what follows for res.status_code.
V1AfterHandler(tk, status) ==
    IF status = "401" /\ tk.attempt < tk.max_retries - 1
    THEN [tk EXCEPT !.pc = "ref_query", !.after = "continue", !.status = status,
                    !.rotated = None]
    ELSE IF status \in {"404", "429", "503"} /\ tk.attempt < tk.max_retries - 1
         THEN NextAttempt(tk)
         ELSE IF status = "200" /\ tk.surface = "v1stream"
              THEN [tk EXCEPT !.pc = "streaming", !.status = status]
              ELSE Finish(tk, status)

\* The value get_current hands to its caller.
Returned(tk, acc) ==
    IF tk.ret = "rotate"
    THEN [ClearCall(tk) EXCEPT !.pc = "rot_done", !.rotated = acc]
    ELSE [ClearCall(tk) EXCEPT !.pc = "got", !.account = acc, !.mode = tk.mode]

SetPool(p) ==
    /\ account_ids' = p.ids
    /\ current_index' = p.idx
    /\ exhausted' = p.exh
    /\ rate_limited' = p.rl
    /\ session_bindings' = p.bind
    /\ binding_timestamps' = p.ts

\* history: the account a sticky-mode get_current(request) returned to session fp.
NoteReturn(tk, acc) ==
    IF "last_ret" \in recorded /\ tk.ret = "fwd" /\ tk.gc_fp # NoSession
    THEN last_ret' = [last_ret EXCEPT ![tk.gc_fp] =
                          IF tk.mode \in StickyModes THEN acc ELSE None]
    ELSE UNCHANGED last_ret

\* Outcome with the bug of sleeping with the lock held.
Outcome_sleeps_locked(t, tk, r) ==
    LET tk1 == IF r.bound # None THEN [tk EXCEPT !.bound = r.bound] ELSE tk
    IN /\ SetPool(r.p)
       /\ lock' = IF r.out \in {"read", "sleep"} THEN t ELSE NoTask
       /\ task' = [task EXCEPT ![t] =
                      CASE r.out = "read" ->
                             [tk1 EXCEPT !.pc = "gc_read", !.cand = r.acc, !.stage = r.stage]
                        [] r.out = "sleep" ->
                             [tk1 EXCEPT !.pc = "gc_sleep", !.wake_at = r.wake,
                                         !.cand = None, !.stage = "none"]
                        [] r.out = "raise" -> Finish(tk1, "500")
                        [] r.out = "return" -> Returned(tk1, r.acc)]
       /\ IF r.out = "return" THEN NoteReturn(tk1, r.acc) ELSE UNCHANGED last_ret

\* A locked section of get_current by task t, whose locals are tk, ends with
\* outcome r: the lock is kept over an await of _read_account and released on
\* a return, a raise and before the cache_first sleep.
Outcome(t, tk, r) ==
    LET tk1 == IF r.bound # None THEN [tk EXCEPT !.bound = r.bound] ELSE tk
    IN /\ SetPool(r.p)
       /\ lock' = IF r.out = "read" THEN t ELSE NoTask
       /\ task' = [task EXCEPT ![t] =
                      CASE r.out = "read" ->
                             [tk1 EXCEPT !.pc = "gc_read", !.cand = r.acc, !.stage = r.stage]
                        [] r.out = "sleep" ->
                             [tk1 EXCEPT !.pc = "gc_sleep", !.wake_at = r.wake,
                                         !.cand = None, !.stage = "none"]
                        [] r.out = "raise" -> Finish(tk1, "500")
                        [] r.out = "return" -> Returned(tk1, r.acc)]
       /\ IF r.out = "return" THEN NoteReturn(tk1, r.acc) ELSE UNCHANGED last_ret

\* ---------------------------------------------------------------- actions

\* A client request reaches a forwarder: chat_completions / anthropic_messages
\* (surface "v1", or "v1stream" when the body asks for a stream;
\* get_current(request)), handle_streaming_proxy_request (surface "native") or
\* handle_proxy_request (surface "buffered"), both with get_current().
FwdStart(t, sf, fp) ==
    /\ task[t].pc = "idle"
    /\ sf \in Surfaces
    /\ IF sf \in V1Surfaces THEN fp \in Sessions ELSE fp = NoSession
    /\ task' = [task EXCEPT ![t] =
           [CallGetCurrent(TaskIdle, fp, "fwd") EXCEPT
               !.surface = sf, !.fp = fp, !.max_retries = Min(size, MAX_RETRY_CAP),
               !.n0 = size]]
    /\ UNCHANGED <<svcVars, dbVars, poolVars, lock, clockVars, sendVars, rl_marked, last_ret>>

\* get_current: "mode = await self._get_schedule_mode()".
GcMode(t) ==
    /\ task[t].pc = "gc_mode"
    /\ task' = [task EXCEPT ![t] = [@ EXCEPT !.pc = "gc_lock", !.mode = pool_schedule_mode]]
    /\ UNCHANGED <<svcVars, dbVars, poolVars, lock, clockVars, sendVars, rl_marked, last_ret>>

\* get_current: "async with self._lock" is entered, and the section runs to its
\* first await.
GcLock(t) ==
    /\ task[t].pc = "gc_lock"
    /\ lock = NoTask
    /\ \E r \in get_current_enter(PoolState, task[t].mode, task[t].gc_fp, now) :
          Outcome(t, [task[t] EXCEPT !.nw = now], r)
    /\ UNCHANGED <<svcVars, dbVars, clockVars, sendVars, rl_marked>>

\* get_current: an "acc = await self._read_account(...)" completes, the lock
\* held; the section runs on to its next await or to its return.
GcRead(t) ==
    /\ task[t].pc = "gc_read"
    /\ lock = t
    /\ LET tk == task[t]
       IN IF read_account(tk.cand)
          THEN Outcome(t, tk, Ret(PoolState, tk.cand))
          ELSE Outcome(t, tk, get_current_read_failed(PoolState, tk.stage, tk.mode,
                                                      tk.gc_fp, tk.bound, tk.nw, now))
    /\ UNCHANGED <<svcVars, dbVars, clockVars, sendVars, rl_marked>>

\* get_current, cache_first: "await asyncio.sleep(remaining)" ends and the task
\* waits for the lock ("finally: await self._lock.acquire()").
GcWake(t) ==
    /\ task[t].pc = "gc_sleep"
    /\ now >= task[t].wake_at
    /\ task' = [task EXCEPT ![t] = [@ EXCEPT !.pc = "gc_relock"]]
    /\ UNCHANGED <<svcVars, dbVars, poolVars, lock, clockVars, sendVars, rl_marked, last_ret>>

\* get_current, cache_first: the lock is taken again; "After wait, try again".
GcRelock(t) ==
    /\ task[t].pc = "gc_relock"
    /\ lock = NoTask
    /\ Outcome(t, task[t], after_wait(PoolState, task[t].bound))
    /\ UNCHANGED <<svcVars, dbVars, clockVars, sendVars, rl_marked>>

\* get_current, cache_first: the task is cancelled in "await
\* asyncio.sleep(remaining)"; "finally: await self._lock.acquire()" takes the
\* lock at once when it is free, and the exception then leaves "async with",
\* which releases it; else the task waits for the lock, the exception pending.
GcCancelSleep(t) ==
    /\ task[t].pc = "gc_sleep"
    /\ task' = [task EXCEPT ![t] = IF lock = NoTask THEN Finish(@, "cancelled")
                                   ELSE [@ EXCEPT !.pc = "gc_cancel_relock"]]
    /\ UNCHANGED <<svcVars, dbVars, poolVars, lock, clockVars, sendVars, rl_marked, last_ret>>

\* get_current, cache_first: the task cancelled in its sleep gets the lock;
\* the exception leaves "async with", which releases it.
GcCancelRelocked(t) ==
    /\ task[t].pc = "gc_cancel_relock"
    /\ lock = NoTask
    /\ task' = [task EXCEPT ![t] = Finish(@, "cancelled")]
    /\ UNCHANGED <<svcVars, dbVars, poolVars, lock, clockVars, sendVars, rl_marked, last_ret>>

\* get_current, cache_first: the task is cancelled while it waits in
\* "finally: await self._lock.acquire()"; acquire raises without the lock, and
\* the exit of "async with" calls self._lock.release(): asyncio.Lock has no
\* owner, so the lock of whoever holds it is released (a free lock makes
\* release raise RuntimeError instead).
GcCancelRelock(t) ==
    /\ task[t].pc \in {"gc_relock", "gc_cancel_relock"}
    /\ lock # NoTask
    /\ lock' = NoTask
    /\ task' = [task EXCEPT ![t] = Finish(@, "cancelled")]
    /\ UNCHANGED <<svcVars, dbVars, poolVars, clockVars, sendVars, rl_marked, last_ret>>

\* The forwarder after "account = await pool.get_current(...)": 503 when there
\* is none; else chat_completions awaits pool.wait_cooldown (first its read of
\* the setting), and the native forwarders send.
FwdGot(t) ==
    /\ task[t].pc = "got"
    /\ task' = [task EXCEPT ![t] =
           IF @.account = None THEN Finish(@, "503")
           ELSE IF @.surface \in V1Surfaces THEN [@ EXCEPT !.pc = "cooldown", !.mode = "none"]
           ELSE [@ EXCEPT !.pc = "sent", !.mode = "none", !.sends = @ + 1]]
    /\ UNCHANGED <<svcVars, dbVars, poolVars, lock, clockVars, sendVars, rl_marked, last_ret>>

\* wait_cooldown after "cooldown = await self._get_cooldown_seconds()": the
\* time still to wait for the account, 0 when there is none.
cooldown_remaining(aid, tnow) ==
    LET last == IF aid \in DOMAIN last_request_time THEN last_request_time[aid] ELSE 0
        remaining == pool_cooldown - (tnow - last)
    IN IF pool_cooldown <= 0 THEN 0 ELSE Max(remaining, 0)

\* chat_completions / anthropic_messages after wait_cooldown returned:
\* pool.mark_request(account), the client session is made (one owned by the
\* stream for "v1stream"), and the request is sent upstream.
Send(t) ==
    /\ last_request_time' = Put(last_request_time, task[t].account, now)
    /\ open_streams' = [open_streams EXCEPT ![t] =
                            IF task[t].surface = "v1stream" THEN @ + 1 ELSE @]
    /\ task' = [task EXCEPT ![t] = [@ EXCEPT !.pc = "sent", !.sends = @ + 1, !.wake_at = 0]]

\* wait_cooldown: the setting is read; it returns at once, or sleeps.
FwdCooldown(t) ==
    /\ task[t].pc = "cooldown"
    /\ open_streams[t] < MaxOpen
    /\ LET remaining == cooldown_remaining(task[t].account, now)
       IN IF remaining > 0
          THEN /\ task' = [task EXCEPT ![t] =
                             [@ EXCEPT !.pc = "cd_sleep", !.wake_at = now + remaining]]
               /\ UNCHANGED sendVars
          ELSE Send(t)
    /\ UNCHANGED <<svcVars, dbVars, poolVars, lock, clockVars, rl_marked, last_ret>>

\* wait_cooldown: "await asyncio.sleep(remaining)" ends.
FwdCooldownWake(t) ==
    /\ task[t].pc = "cd_sleep"
    /\ now >= task[t].wake_at
    /\ Send(t)
    /\ UNCHANGED <<svcVars, dbVars, poolVars, lock, clockVars, rl_marked, last_ret>>

\* "await pool.rotate(account, reason)": up to the wait for the lock.
CallRotate(tk, reason, status) ==
    [tk EXCEPT !.pc = "rot_lock", !.reason = reason, !.status = status]

\* _handle_stream / _handle_non_stream (and the anthropic pair) on the upstream's
\* answer, then the loop of chat_completions / anthropic_messages.
V1OnResponse(tk, resp) ==
    CASE resp = "404" -> CallRotate(tk, "model_not_found", "404")
      [] resp = "429" -> CallRotate(tk, "rate_limited", "429")
      [] resp = "403quota" -> CallRotate(tk, "exhausted", "429")
      [] resp = "503capacity" -> CallRotate(tk, "capacity_exhausted", "503")
      [] resp \in {"timeout", "error"} ->
             IF tk.attempt = tk.max_retries - 1 THEN Finish(tk, "502") ELSE NextAttempt(tk)
      [] OTHER -> V1AfterHandler(tk, resp)

\* handle_streaming_proxy_request with the bug of taking every 403 for a quota
\* error.
NativeOnResponse_every_403_is_quota(tk, resp) ==
    CASE resp = "429" -> CallRotate(tk, "rate_limited", "429")
      [] resp \in {"403", "403quota"} -> CallRotate(tk, "exhausted", "403")
      [] resp = "timeout" -> Finish(tk, "504")
      [] resp = "error" ->
             IF tk.attempt = tk.max_retries - 1 THEN Finish(tk, "502") ELSE NextAttempt(tk)
      [] OTHER -> [tk EXCEPT !.pc = "streaming", !.status = StatusOf(resp)]

\* handle_streaming_proxy_request on the upstream's answer: rotate, return
\* bytes, or return the iterator stream_body(resp).
NativeOnResponse(tk, resp) ==
    CASE resp = "429" -> CallRotate(tk, "rate_limited", "429")
      [] resp = "403quota" -> CallRotate(tk, "exhausted", "403")
      [] resp = "403" -> Finish(tk, "403")
      [] resp = "timeout" -> Finish(tk, "504")
      [] resp = "error" ->
             IF tk.attempt = tk.max_retries - 1 THEN Finish(tk, "502") ELSE NextAttempt(tk)
      [] OTHER -> [tk EXCEPT !.pc = "streaming", !.status = StatusOf(resp)]

\* handle_proxy_request on the upstream's answer.
BufferedOnResponse(tk, resp) ==
    CASE resp = "429" -> CallRotate(tk, "rate_limited", "429")
      [] resp = "403quota" -> CallRotate(tk, "exhausted", "403")
      [] resp = "timeout" -> Finish(tk, "504")
      [] resp = "error" -> Finish(tk, "502")
      [] OTHER -> Finish(tk, StatusOf(resp))

\* The sessions and responses task t holds open once the upstream answered:
\* _handle_stream closes its session on a status other than 200
\* ("finally: await client.close()") and leaves it to the generator on 200;
\* handle_streaming_proxy_request closes the response on 429 and 403
\* ("await resp.aclose()") and leaves any other to stream_body.
streams_after(n, surface, resp) ==
    CASE surface = "v1stream" ->
             IF resp \in {"200", "timeout", "error"} THEN n ELSE n - 1
      [] surface = "native" ->
             IF resp \in {"429", "403", "403quota", "timeout", "error"} THEN n ELSE n + 1
      [] OTHER -> n

\* The upstream answers the send of task t.  (history: the answer.)
FwdResponse(t, resp) ==
    /\ task[t].pc = "sent"
    /\ LET tk == [task[t] EXCEPT !.resp = IF "result" \in recorded THEN resp ELSE "none"]
       IN task' = [task EXCEPT ![t] =
              CASE tk.surface \in V1Surfaces -> V1OnResponse(tk, resp)
                [] tk.surface = "native" -> NativeOnResponse(tk, resp)
                [] OTHER -> BufferedOnResponse(tk, resp)]
    /\ open_streams' = [open_streams EXCEPT ![t] = streams_after(@, task[t].surface, resp)]
    /\ UNCHANGED <<svcVars, dbVars, poolVars, lock, clockVars, last_request_time, rl_marked, last_ret>>

\* The response handed to the client ends, delivered completely or cut by the
\* client's disconnect: the generator's "finally" closes the session
\* (stream_openai) or the response (stream_body).
StreamEnd(t) ==
    /\ task[t].pc = "streaming"
    /\ task' = [task EXCEPT ![t] = Finish(@, @.status)]
    /\ open_streams' = [open_streams EXCEPT ![t] = @ - 1]
    /\ UNCHANGED <<svcVars, dbVars, poolVars, lock, clockVars, last_request_time, rl_marked, last_ret>>

\* rotate: the locked section (mark, cursor), then "await self.get_current()".
RotLock(t) ==
    /\ task[t].pc = "rot_lock"
    /\ lock = NoTask
    /\ SetPool(rotate_mark(PoolState, task[t].account, task[t].reason, now))
    /\ rl_marked' = IF "rl_marked" \in recorded /\ task[t].reason = "rate_limited"
                    THEN [rl_marked EXCEPT ![task[t].account] = now + RATE_LIMIT_SECS]
                    ELSE rl_marked
    /\ task' = [task EXCEPT ![t] =
           CallGetCurrent([@ EXCEPT !.account = None, !.reason = "none"], NoSession, "rotate")]
    /\ UNCHANGED <<svcVars, dbVars, lock, clockVars, sendVars, last_ret>>

\* rotate returned to the handler, and the handler to its forwarder's loop.
RotDone(t) ==
    /\ task[t].pc = "rot_done"
    /\ task' = [task EXCEPT ![t] =
           IF @.surface \in V1Surfaces THEN V1AfterHandler(@, @.status) ELSE NextAttempt(@)]
    /\ UNCHANGED <<svcVars, dbVars, poolVars, lock, clockVars, sendVars, rl_marked, last_ret>>

\* pool.refresh() is called outside a request: start_proxy, POST /refresh-pool.
AdminRefresh(t) ==
    /\ task[t].pc = "idle"
    /\ task' = [task EXCEPT ![t] = [TaskIdle EXCEPT !.pc = "ref_query", !.after = "done"]]
    /\ UNCHANGED <<svcVars, dbVars, poolVars, lock, clockVars, sendVars, rl_marked, last_ret>>

\* refresh: the store query returns the ids.
RefQuery(t) ==
    /\ task[t].pc = "ref_query"
    /\ task' = [task EXCEPT ![t] = [@ EXCEPT !.pc = "ref_lock", !.ids = refresh_query]]
    /\ UNCHANGED <<svcVars, dbVars, poolVars, lock, clockVars, sendVars, rl_marked, last_ret>>

\* refresh: the locked section; then the caller goes on.
RefLock(t) ==
    /\ task[t].pc = "ref_lock"
    /\ lock = NoTask
    /\ SetPool(refresh_apply(PoolState, task[t].ids, now))
    /\ task' = [task EXCEPT ![t] =
           CASE @.after = "continue" -> NextAttempt([@ EXCEPT !.ids = <<>>])
             [] @.after = "start" -> [TaskIdle EXCEPT !.pc = "start_serve"]
             [] OTHER -> TaskIdle]
    /\ UNCHANGED <<svcVars, dbVars, lock, clockVars, sendVars, rl_marked, last_ret>>

\* POST /start while the proxy is not running, and start_proxy while there is
\* no server: the shared client is created, then "await _pool.refresh()".
\* (Otherwise both return at once and change nothing.)
ProxyStart(t) ==
    /\ task[t].pc = "idle"
    /\ clients_made < MaxStarts
    /\ ~proxy_running
    /\ proxy_server = None
    /\ clients_made' = clients_made + 1
    /\ http_client' = clients_made + 1
    /\ open_clients' = open_clients \cup {clients_made + 1}
    /\ task' = [task EXCEPT ![t] = [TaskIdle EXCEPT !.pc = "ref_query", !.after = "start"]]
    /\ UNCHANGED <<dbVars, poolVars, lock, clockVars, sendVars, rl_marked, last_ret,
                   refresherVars, last_sync, callVars, proxy_server, proxy_running, live_servers>>

\* start_proxy after the refresh: the server is created, the proxy is marked
\* running, the server's task is started and the server is stored.
ProxyServe(t) ==
    /\ task[t].pc = "start_serve"
    /\ LET server == 1 + SetMax(live_servers \cup {proxy_server})
       IN /\ live_servers' = live_servers \cup {server}
          /\ proxy_server' = server
    /\ proxy_running' = TRUE
    /\ task' = [task EXCEPT ![t] = TaskIdle]
    /\ UNCHANGED <<dbVars, poolVars, lock, clockVars, sendVars, rl_marked, last_ret,
                   refresherVars, last_sync, callVars, http_client, open_clients, clients_made>>

\* POST /stop while there is a server: it is told to exit and forgotten, the
\* proxy is marked stopped, then "await _http_client.aclose()" if there is a
\* client.  (Without a server stop_proxy returns at once.)
ProxyStop(t) ==
    /\ task[t].pc = "idle"
    /\ proxy_server # None
    /\ live_servers' = live_servers \ {proxy_server}
    /\ proxy_server' = None
    /\ proxy_running' = FALSE
    /\ open_clients' = open_clients \ {http_client}
    /\ task' = [task EXCEPT ![t] =
           IF http_client # None THEN [TaskIdle EXCEPT !.pc = "stop_close"] ELSE TaskIdle]
    /\ UNCHANGED <<dbVars, poolVars, lock, clockVars, sendVars, rl_marked, last_ret,
                   refresherVars, last_sync, callVars, http_client, clients_made>>

\* stop_proxy after aclose returned: "_http_client = None".
ProxyStopClosed(t) ==
    /\ task[t].pc = "stop_close"
    /\ http_client' = None
    /\ task' = [task EXCEPT ![t] = TaskIdle]
    /\ UNCHANGED <<dbVars, poolVars, lock, clockVars, sendVars, rl_marked, last_ret,
                   refresherVars, last_sync, callVars, proxy_server, proxy_running, open_clients, live_servers, clients_made>>

\* ------------------------------------------------------------ the refresher

\* The settings the refresher reads, in the order it reads them, and the
\* defaults it passes to _get_setting.
SettingKeys ==
    <<"auto_refresh_enabled", "auto_refresh_gemini_enabled",
      "auto_refresh_antigravity_enabled", "auto_refresh_interval">>

SettingDefaults ==
    [k \in Range(SettingKeys) |->
        CASE k = "auto_refresh_enabled" -> "false"
          [] k = "auto_refresh_interval" -> "15"
          [] OTHER -> "true"]

\* Python's int() on the values the setting auto_refresh_interval takes in the
\* model; on any other string it raises ValueError.
int == [v \in {"0", "1", "15"} |-> CASE v = "0" -> 0 [] v = "1" -> 1 [] OTHER -> 15]

\* OAuthCredential.client_type
Kinds == <<"gemini_cli", "antigravity">>

\* What the token endpoint answers to one refresh: a status with the fields of
\* its JSON body (expires_in 0: the field is absent), or a transport exception.
TokenAnswers ==
    {[status |-> "200", error |-> "", expires_in |-> 3600],
     [status |-> "200", error |-> "", expires_in |-> 1800],
     [status |-> "200", error |-> "", expires_in |-> 0],
     [status |-> "400", error |-> "invalid_grant", expires_in |-> 0],
     [status |-> "401", error |-> "unauthorized_client", expires_in |-> 0],
     [status |-> "400", error |-> "invalid_request", expires_in |-> 0],
     [status |-> "exception", error |-> "", expires_in |-> 0]}

\* The refresher task as created by lifespan: in its first sleep.
RfStart(t0) ==
    [pc |-> "boot_sleep", wake_at |-> t0 + BOOT_SLEEP, key |-> 0, enabled |-> FALSE,
     gemini |-> FALSE, antigravity |-> FALSE, interval |-> 0, creds |-> <<>>, t0 |-> 0,
     pos |-> 0, any_refreshed |-> FALSE, first_account |-> TRUE, cycles |-> 0,
     cancelled |-> FALSE, staggered |-> FALSE, calls |-> {}, synced |-> {}]

\* _refresh_credential with the bug of clearing the token on every error answer.
refresh_credential_freezes_on_any_error(row, ans, tnow) ==
    IF ~row.refresh_token \/ ans.status = "exception"
    THEN [row |-> row, success |-> FALSE]
    ELSE IF ans.status # "200"
    THEN [row |-> [row EXCEPT !.access_token = 0, !.token_expires_at = 0],
          success |-> FALSE]
    ELSE [row |-> [row EXCEPT !.access_token = 1,
                              !.token_expires_at =
                                  IF ans.expires_in # 0 THEN tnow + ans.expires_in ELSE 0,
                              !.last_sync_at = tnow],
          success |-> TRUE]

\* _refresh_credential on the stored row, given the token endpoint's answer:
\* the row it leaves and the "success" of the value it returns.
refresh_credential(row, ans, tnow) ==
    IF ~row.refresh_token \/ ans.status = "exception"
    THEN [row |-> row, success |-> FALSE]
    ELSE IF ans.status # "200"
    THEN [row |-> IF ans.error \in {"invalid_grant", "unauthorized_client"}
                  THEN [row EXCEPT !.access_token = 0, !.token_expires_at = 0]
                  ELSE row,
          success |-> FALSE]
    ELSE [row |-> [row EXCEPT !.access_token = 1,
                              !.token_expires_at =
                                  IF ans.expires_in # 0 THEN tnow + ans.expires_in ELSE 0,
                              !.last_sync_at = tnow],
          success |-> TRUE]

\* The query of a cycle: the credentials of the accounts that are not disabled,
\* grouped by account, with the last_sync_at the query read.
load_creds ==
    LET accs == SortedSeq(db_accounts \ db_disabled)
    IN [i \in 1..(2 * Len(accs)) |->
           LET a == accs[(i + 1) \div 2]
               k == Kinds[2 - (i % 2)]
           IN [account |-> a, client_type |-> k, last_sync_at |-> db_creds[<<a, k>>].last_sync_at]]

\* The scheduler's loops from one await to the next.  at = "cred": the
\* credential at r.pos is examined (toggle, last_sync_at, stagger); "after":
\* that credential is done; "account": its account is done.
RECURSIVE rf_continue(_, _)

\* rf_continue with the bug of examining no per-kind toggle.
rf_continue_ignores_toggles(r, at) ==
    CASE at = "cred" ->
           LET c == r.creds[r.pos]
               recent == c.last_sync_at # 0 /\ r.t0 - c.last_sync_at < r.interval * 60
           IN IF recent THEN rf_continue(r, "after")
              ELSE IF ~r.first_account \/ r.any_refreshed
              THEN [r EXCEPT !.pc = "stagger", !.wake_at = now + STAGGER_DELAY]
              ELSE [r EXCEPT !.pc = "refresh"]
      [] at = "after" ->
           IF r.pos < Len(r.creds) /\ r.creds[r.pos + 1].account = r.creds[r.pos].account
           THEN rf_continue([r EXCEPT !.pos = @ + 1], "cred")
           ELSE IF r.any_refreshed THEN [r EXCEPT !.pc = "sync"]
           ELSE rf_continue(r, "account")
      [] OTHER ->
           LET r1 == [r EXCEPT !.first_account = FALSE, !.any_refreshed = FALSE]
           IN IF r.pos < Len(r.creds) THEN rf_continue([r1 EXCEPT !.pos = @ + 1], "cred")
              ELSE [r1 EXCEPT !.pc = "poll_sleep", !.wake_at = now + POLL_SLEEP]

rf_continue(r, at) ==
    CASE at = "cred" ->
           LET c == r.creds[r.pos]
               off == \/ c.client_type = "gemini_cli" /\ ~r.gemini
                      \/ c.client_type = "antigravity" /\ ~r.antigravity
               recent == c.last_sync_at # 0 /\ r.t0 - c.last_sync_at < r.interval * 60
           IN IF off \/ recent THEN rf_continue(r, "after")
              ELSE IF ~r.first_account \/ r.any_refreshed
              THEN [r EXCEPT !.pc = "stagger", !.wake_at = now + STAGGER_DELAY]
              ELSE [r EXCEPT !.pc = "refresh"]
      [] at = "after" ->
           IF r.pos < Len(r.creds) /\ r.creds[r.pos + 1].account = r.creds[r.pos].account
           THEN rf_continue([r EXCEPT !.pos = @ + 1], "cred")
           ELSE IF r.any_refreshed THEN [r EXCEPT !.pc = "sync"]
           ELSE rf_continue(r, "account")
      [] OTHER ->
           LET r1 == [r EXCEPT !.first_account = FALSE, !.any_refreshed = FALSE]
           IN IF r.pos < Len(r.creds) THEN rf_continue([r1 EXCEPT !.pos = @ + 1], "cred")
              ELSE [r1 EXCEPT !.pc = "poll_sleep", !.wake_at = now + POLL_SLEEP]

\* "except Exception": the error is logged, then the back-off sleep.
rf_backoff(r) == [r EXCEPT !.pc = "backoff", !.wake_at = now + BACKOFF_SLEEP]

\* What the refresher leaves alone.
outsideRefresher ==
    <<dbVars, poolVars, lock, ticks, changes, recorded, sendVars, task, rl_marked, last_ret,
      proxyVars, last_sync, callVars>>

\* A sleep of the scheduler returns: the stagger sleep goes on to the refresh,
\* every other sleep to the top of the loop.  (history: the calls and syncs of
\* the cycle before are forgotten.)
RfWake ==
    /\ rf.pc \in {"boot_sleep", "off_sleep", "poll_sleep", "backoff", "stagger"}
    /\ rf.pc # "stagger" => rf.cycles < MaxCycles
    /\ now' = Max(now, rf.wake_at)
    /\ rf' = IF rf.pc = "stagger"
             THEN [rf EXCEPT !.pc = "refresh", !.staggered = TRUE]
             ELSE [rf EXCEPT !.pc = "get_setting", !.key = 1, !.cycles = @ + 1,
                             !.enabled = FALSE, !.staggered = FALSE, !.calls = {},
                             !.synced = {}]
    /\ UNCHANGED <<outsideRefresher, db_settings, db_disabled, db_creds>>

\* _get_setting returns: the stored value, or the default when the read fails.
RfGetSetting(fails) ==
    /\ rf.pc = "get_setting"
    /\ LET k == SettingKeys[rf.key]
           v == IF fails THEN SettingDefaults[k] ELSE db_settings[k]
       IN rf' = CASE rf.key = 1 ->
                       IF v # "true"
                       THEN [rf EXCEPT !.pc = "off_sleep", !.wake_at = now + OFF_SLEEP]
                       ELSE [rf EXCEPT !.enabled = TRUE, !.key = 2]
                  [] rf.key = 2 -> [rf EXCEPT !.gemini = (v = "true"), !.key = 3]
                  [] rf.key = 3 -> [rf EXCEPT !.antigravity = (v = "true"), !.key = 4]
                  [] OTHER ->
                       IF v \notin DOMAIN int THEN rf_backoff(rf)
                       ELSE [rf EXCEPT !.pc = "load",
                                       !.interval = IF int[v] < 1 THEN DEFAULT_INTERVAL
                                                    ELSE int[v]]
    /\ UNCHANGED <<outsideRefresher, now, db_settings, db_disabled, db_creds>>

\* The query for the credentials returns, or raises.
RfLoad(fails) ==
    /\ rf.pc = "load"
    /\ rf' = IF fails THEN rf_backoff(rf)
             ELSE IF load_creds = <<>>
             THEN [rf EXCEPT !.pc = "poll_sleep", !.wake_at = now + POLL_SLEEP,
                             !.creds = <<>>, !.pos = 0]
             ELSE rf_continue([rf EXCEPT !.creds = load_creds, !.t0 = now, !.pos = 1,
                                         !.first_account = TRUE, !.any_refreshed = FALSE],
                              "cred")
    /\ UNCHANGED <<outsideRefresher, now, db_settings, db_disabled, db_creds>>

\* rf_refreshed with the bug "any_refreshed = res['success']".
rf_refreshed_keeps_last_result(success) ==
    LET c == rf.creds[rf.pos]
    IN rf_continue([rf EXCEPT !.any_refreshed = success,
                              !.staggered = FALSE,
                              !.calls = @ \cup {[account |-> c.account,
                                                 client_type |-> c.client_type,
                                                 success |-> success,
                                                 staggered |-> rf.staggered,
                                                 n |-> Cardinality(rf.calls) + 1]}],
                   "after")

\* The refresher after _refresh_credential returned `success` for the
\* credential at rf.pos.  (history: the call, and whether a stagger sleep
\* preceded it.)
rf_refreshed(success) ==
    LET c == rf.creds[rf.pos]
    IN rf_continue([rf EXCEPT !.any_refreshed = @ \/ success,
                              !.staggered = FALSE,
                              !.calls = @ \cup {[account |-> c.account,
                                                 client_type |-> c.client_type,
                                                 success |-> success,
                                                 staggered |-> rf.staggered,
                                                 n |-> Cardinality(rf.calls) + 1]}],
                   "after")

\* "res = await _refresh_credential(cred.id, cred.client_type)" returns.
RfRefresh(ans) ==
    /\ rf.pc = "refresh"
    /\ LET c == rf.creds[rf.pos]
           id == <<c.account, c.client_type>>
           res == refresh_credential(db_creds[id], ans, now)
       IN /\ db_creds' = [db_creds EXCEPT ![id] = res.row]
          /\ rf' = rf_refreshed(res.success)
    /\ UNCHANGED <<outsideRefresher, now, db_settings, db_disabled>>

\* "await _sync_account_info(account_id)" returns.  (history: the account.)
RfSync ==
    /\ rf.pc = "sync"
    /\ rf' = rf_continue([rf EXCEPT !.synced = @ \cup {rf.creds[rf.pos].account}], "account")
    /\ UNCHANGED <<outsideRefresher, now, db_settings, db_disabled, db_creds>>

\* lifespan cancels the task: CancelledError is raised at the await where the
\* task is suspended.  It ends the task, unless the task is reading a response
\* body in _log_response_hook (utils/proxy.py), whose bare "except:" swallows
\* it: then the refresh fails with ResponseNotRead, or the sync goes on.
RfCancel(swallowed) ==
    /\ ~rf.cancelled
    /\ rf.pc # "ended"
    /\ swallowed => rf.pc \in {"refresh", "sync"}
    /\ rf' = [(CASE ~swallowed -> [rf EXCEPT !.pc = "ended"]
                 [] rf.pc = "refresh" -> rf_refreshed(FALSE)
                 [] OTHER -> rf_continue([rf EXCEPT !.synced =
                                              @ \cup {rf.creds[rf.pos].account}], "account"))
              EXCEPT !.cancelled = TRUE]
    /\ UNCHANGED <<outsideRefresher, now, db_settings, db_disabled, db_creds>>

\* A setting of the refresher is changed (PUT /settings), or an account is
\* disabled or enabled.
RfStoreChange ==
    /\ changes < MaxChanges
    /\ changes' = changes + 1
    /\ \/ /\ \E k \in Range(SettingKeys), v \in {"true", "false"} :
                /\ k # "auto_refresh_interval"
                /\ v # db_settings[k]
                /\ db_settings' = [db_settings EXCEPT ![k] = v]
          /\ UNCHANGED db_disabled
       \/ /\ \E a \in db_accounts :
                db_disabled' = IF a \in db_disabled THEN db_disabled \ {a}
                               ELSE db_disabled \cup {a}
          /\ UNCHANGED db_settings
    /\ UNCHANGED <<dbVars, poolVars, lock, now, ticks, recorded, sendVars, task, rl_marked,
                   last_ret, proxyVars, db_creds, rf, last_sync, callVars>>

\* ------------------------------------------------------------ account sync

\* The ineligible-tier entries a loadCodeAssist answer may carry.
IneligibleEntries ==
    [tierId : {"free-tier", "standard-tier"},
     reasonCode : {"UNSUPPORTED_LOCATION", "DASHER_USER", "UNKNOWN_REASON"},
     validationUrl : {FALSE}]
    \cup [tierId : {"free-tier", "standard-tier"},
          reasonCode : {"VALIDATION_REQUIRED"},
          validationUrl : BOOLEAN]

\* The validation_required of a sync result: absent or False ("false"), True
\* (a 403 of retrieveUserQuota without details, or an error naming
\* VALIDATION_REQUIRED) or the details _extract_validation_from_body found
\* ("details", a dict with a validation_url).
ValidationFlags == {"false", "true", "details"}

\* What sync_account_info finds for one credential: the tier stored on it, and
\* the result of its sync (synced FALSE: no access token, so no sync and no
\* result), and the quota_data stored on it.
CredSyncs(lists, quotas) ==
    [tier : {"none", "free-tier", "standard-tier"},
     quota_data : quotas,
     result : {[synced |-> FALSE, success |-> FALSE, ineligible_tiers |-> <<>>,
                validation_required |-> "false"]}
              \cup [synced : {TRUE}, success : {FALSE}, ineligible_tiers : {<<>>},
                    validation_required : ValidationFlags]
              \cup [synced : {TRUE}, success : {TRUE}, ineligible_tiers : lists,
                    validation_required : ValidationFlags]]

\* sync_account_info, the loop over all_ineligible from entry i on: st holds
\* is_forbidden, account.status_reason and account.status_details ("url": a
\* dict with a validation_url).
RECURSIVE scan_ineligible(_, _, _, _)
scan_ineligible(all, i, best_tier, st) ==
    IF i > Len(all) THEN st
    ELSE LET reason == all[i].reasonCode
             st1 == IF reason = "VALIDATION_REQUIRED"
                    THEN [st EXCEPT !.status_reason = "VALIDATION_REQUIRED",
                                    !.status_details = IF all[i].validationUrl
                                                       THEN "url" ELSE @]
                    ELSE st
             critical == reason \in {"DASHER_USER", "INELIGIBLE_ACCOUNT", "RESTRICTED_NETWORK",
                                     "UNKNOWN_LOCATION", "UNSUPPORTED_LOCATION"}
             ignored == /\ best_tier # "none"
                        /\ best_tier # "free-tier"
                        /\ all[i].tierId = "free-tier"
             st2 == IF critical /\ ~ignored
                    THEN [st1 EXCEPT !.is_forbidden = TRUE,
                                     !.status_reason = IF @ # "VALIDATION_REQUIRED"
                                                       THEN reason ELSE @]
                    ELSE st1
         IN scan_ineligible(all, i + 1, best_tier, st2)

\* sync_account_info with the bug of ignoring every free-tier entry.
sync_account_info_ignores_free_tier(creds) ==
    LET tiers == [i \in DOMAIN creds |-> creds[i].tier]
        best_tier == IF tiers[2] # "none" /\ (tiers[1] = "none" \/ tiers[2] # "free-tier")
                     THEN tiers[2] ELSE tiers[1]
        ok(i) == creds[i].result.synced /\ creds[i].result.success
        all == (IF ok(1) THEN creds[1].result.ineligible_tiers ELSE <<>>)
               \o (IF ok(2) THEN creds[2].result.ineligible_tiers ELSE <<>>)
        st == scan_ineligible(all, 1, "standard-tier",
                              [is_forbidden |-> FALSE, status_reason |-> "none",
                               status_details |-> "none"])
        val == \E i \in DOMAIN creds : creds[i].result.validation_required # "false"
        val_details == \E i \in DOMAIN creds : creds[i].result.validation_required = "details"
    IN [tier |-> best_tier, is_forbidden |-> st.is_forbidden,
        status_reason |-> IF val THEN "VALIDATION_REQUIRED" ELSE st.status_reason,
        status_details |-> IF val_details THEN "url" ELSE st.status_details,
        ineligible_tiers |-> all]

\* sync_account_info, the aggregation (step 5), given what it found for the
\* gemini_cli and the antigravity credential: the fields it stores on the
\* account.
sync_account_info(creds) ==
    LET tiers == [i \in DOMAIN creds |-> creds[i].tier]
        best_tier == IF tiers[2] # "none" /\ (tiers[1] = "none" \/ tiers[2] # "free-tier")
                     THEN tiers[2] ELSE tiers[1]
        ok(i) == creds[i].result.synced /\ creds[i].result.success
        all == (IF ok(1) THEN creds[1].result.ineligible_tiers ELSE <<>>)
               \o (IF ok(2) THEN creds[2].result.ineligible_tiers ELSE <<>>)
        st == scan_ineligible(all, 1, best_tier,
                              [is_forbidden |-> FALSE, status_reason |-> "none",
                               status_details |-> "none"])
        val == \E i \in DOMAIN creds : creds[i].result.validation_required # "false"
        val_details == \E i \in DOMAIN creds : creds[i].result.validation_required = "details"
    IN [tier |-> best_tier, is_forbidden |-> st.is_forbidden,
        status_reason |-> IF val THEN "VALIDATION_REQUIRED" ELSE st.status_reason,
        status_details |-> IF val_details THEN "url" ELSE st.status_details,
        ineligible_tiers |-> all]

\* A remainingFraction, in thousandths; NoFraction: the bucket has none.
NoFraction == 0 - 1

Fractions == {0, 333, 999, 1000}

Buckets == [remainingFraction : Fractions \cup {NoFraction}]

\* _sync_antigravity, the conversion of fetchAvailableModels' answer to the
\* stored quota_data: a model without quotaInfo gets no fraction, a quotaInfo
\* without remainingFraction counts as 0.
antigravity_quota(models_raw) ==
    [i \in DOMAIN models_raw |->
        [remainingFraction |->
            IF ~models_raw[i].quotaInfo THEN NoFraction
            ELSE IF models_raw[i].remainingFraction = NoFraction THEN 0
            ELSE models_raw[i].remainingFraction]]

\* sync_account_info, the loop over target_quota_data from bucket i on:
\* q holds min_fraction and has_fraction.
RECURSIVE scan_buckets(_, _, _)
scan_buckets(data, i, q) ==
    IF i > Len(data) THEN q
    ELSE LET r_frac == data[i].remainingFraction
         IN scan_buckets(data, i + 1,
                         IF r_frac # NoFraction
                         THEN [has_fraction |-> TRUE,
                               min_fraction |-> IF r_frac < q.min_fraction
                                                THEN r_frac ELSE q.min_fraction]
                         ELSE q)

\* sync_account_info always taking the antigravity credential's quota_data.
quota_percent_of_antigravity(old, creds) ==
    LET q == scan_buckets(creds[2].quota_data, 1,
                          [has_fraction |-> FALSE, min_fraction |-> 1000])
    IN IF q.has_fraction THEN ((1000 - q.min_fraction) * 100) \div 1000 ELSE old

\* sync_account_info, the account's quota_percent: from the gemini_cli
\* credential's quota_data when it has any, else from the antigravity
\* credential's; `old` is the value stored before.
quota_percent(old, creds) ==
    LET target_quota_data == IF creds[1].quota_data # <<>> THEN creds[1].quota_data
                             ELSE creds[2].quota_data
        q == scan_buckets(target_quota_data, 1,
                          [has_fraction |-> FALSE, min_fraction |-> 1000])
    IN IF q.has_fraction THEN ((1000 - q.min_fraction) * 100) \div 1000 ELSE old

\* The account rows a sync may find: as created (quota_percent 100, not
\* forbidden), or as an earlier sync left them.
AccountRows ==
    [is_forbidden : BOOLEAN, status_reason : {"none", "UNSUPPORTED_LOCATION"},
     has_ineligible : BOOLEAN, quota_percent : {100, 40}]

NewAccount ==
    [is_forbidden |-> FALSE, status_reason |-> "none", has_ineligible |-> FALSE,
     quota_percent |-> 100]

\* sync_account_info runs for one of the given account rows, whose gemini_cli
\* and antigravity credentials are any of the given ones.
SyncAccount(accounts, gemini_creds, antigravity_creds) ==
    /\ ~last_sync.called
    /\ \E before \in accounts, g \in gemini_creds, a \in antigravity_creds :
          last_sync' = [called |-> TRUE, before |-> before, creds |-> <<g, a>>,
                        account |-> sync_account_info(<<g, a>>),
                        quota_percent |-> quota_percent(before.quota_percent, <<g, a>>)]
    /\ UNCHANGED <<dbVars, poolVars, lock, clockVars, sendVars, task, rl_marked, last_ret,
                   proxyVars, refresherVars, callVars>>

\* JSON values: <<"atom", a>> for a string, number or boolean, <<"dict", d>>
\* for an object, d being its set of <<key, value>> pairs, <<"list", l>> for
\* an array, l being the sequence of its items.
Atom(a) == <<"atom", a>>
Dict(d) == <<"dict", d>>
List(l) == <<"list", l>>

\* _clean_schema_for_gemini: ALLOWED_KEYS.
ALLOWED_KEYS ==
    {"type", "description", "enum", "items", "properties", "required", "nullable", "format"}

\* _clean_schema_for_gemini dropping a nested object that has no allowed key,
\* judged before the object is cleaned.
RECURSIVE clean_schema_drops_empty(_)
clean_schema_drops_empty(schema) ==
    Dict({<<kv[1],
            CASE kv[2][1] = "dict" -> clean_schema_drops_empty(kv[2])
              [] kv[2][1] = "list" ->
                    List([i \in DOMAIN kv[2][2] |->
                             IF kv[2][2][i][1] = "dict"
                             THEN clean_schema_drops_empty(kv[2][2][i])
                             ELSE kv[2][2][i]])
              [] OTHER -> kv[2]>> :
          kv \in {p \in schema[2] :
                    /\ p[1] \in ALLOWED_KEYS
                    /\ p[2][1] = "dict" => \E q \in p[2][2] : q[1] \in ALLOWED_KEYS}})

\* _clean_schema_for_gemini(schema), schema being a dict.
RECURSIVE clean_schema_for_gemini(_)
clean_schema_for_gemini(schema) ==
    Dict({<<kv[1],
            CASE kv[2][1] = "dict" -> clean_schema_for_gemini(kv[2])
              [] kv[2][1] = "list" ->
                    List([i \in DOMAIN kv[2][2] |->
                             IF kv[2][2][i][1] = "dict"
                             THEN clean_schema_for_gemini(kv[2][2][i])
                             ELSE kv[2][2][i]])
              [] OTHER -> kv[2]>> :
          kv \in {p \in schema[2] : p[1] \in ALLOWED_KEYS}})

\* _convert_openai_tools_to_gemini / _convert_anthropic_tools_to_gemini for a
\* tool whose parameters / input_schema is one of the given schemas: the
\* declaration has parameters when the schema is not empty.
ConvertTools(schemas) ==
    /\ tool_schema.stage = "idle"
    /\ \E schema \in schemas :
          tool_schema' = [stage |-> "sent", given |-> schema,
                          has_parameters |-> schema[2] # {},
                          parameters |-> clean_schema_for_gemini(schema)]
    /\ UNCHANGED <<serverVars, onboard, model_call, astream>>

\* fnmatch.fnmatch(name, pat) on a case-sensitive platform, names and patterns
\* being sequences of characters: "*" matches any run, "?" any character,
\* "[" up to the next "]" (not counting one right after the "[") any of the
\* characters between them, an unclosed "[" itself.
RECURSIVE fnmatch(_, _)
fnmatch(name, pat) ==
    IF pat = <<>> THEN name = <<>>
    ELSE LET c == Head(pat)
             closing == {j \in 3..Len(pat) : pat[j] = "]"}
         IN CASE c = "*" -> \/ fnmatch(name, Tail(pat))
                            \/ name # <<>> /\ fnmatch(Tail(name), pat)
              [] c = "?" -> name # <<>> /\ fnmatch(Tail(name), Tail(pat))
              [] c = "[" /\ closing # {} ->
                    LET j == CHOOSE k \in closing : \A l \in closing : k <= l
                    IN /\ name # <<>>
                       /\ Head(name) \in {pat[k] : k \in 2..(j - 1)}
                       /\ fnmatch(Tail(name), SubSeq(pat, j + 1, Len(pat)))
              [] OTHER -> name # <<>> /\ Head(name) = c /\ fnmatch(Tail(name), Tail(pat))

\* apply_model_mapping, the query: the active rules ordered by priority, then
\* created_at (the created_at of the rules differ and are below 10).
active_mappings(rules) ==
    LET active == {id \in DOMAIN rules : rules[id].is_active}
        key(id) == rules[id].priority * 10 + rules[id].created_at
        keys == SortedSeq({key(id) : id \in active})
    IN [i \in DOMAIN keys |-> rules[CHOOSE id \in active : key(id) = keys[i]]]

\* apply_model_mapping, the loop over the mappings from the i-th on.
RECURSIVE scan_mappings(_, _, _)
scan_mappings(mappings, i, model) ==
    IF i > Len(mappings) THEN [mapped |-> model, original |-> <<>>]
    ELSE IF mappings[i].pattern = model
         THEN [mapped |-> mappings[i].target, original |-> model]
         ELSE IF /\ \E k \in DOMAIN mappings[i].pattern : mappings[i].pattern[k] \in {"*", "?"}
                 /\ fnmatch(model, mappings[i].pattern)
              THEN [mapped |-> mappings[i].target, original |-> model]
              ELSE scan_mappings(mappings, i + 1, model)

\* apply_model_mapping(model) with one of the given rule tables stored.
ApplyModelMapping(tables, models) ==
    /\ model_call.stage = "idle"
    /\ \E rules \in tables, model \in models :
          model_call' = [stage |-> "returned", rules |-> rules, model |-> model,
                         ret |-> scan_mappings(active_mappings(rules), 1, model)]
    /\ UNCHANGED <<serverVars, onboard, tool_schema, astream>>

\* An event of the Anthropic stream: its type, the index it names (0 when it
\* names none) and the kind of block or delta or the stop_reason it carries.
Event(type, index, kind) == [type |-> type, index |-> index, kind |-> kind]

\* stream_anthropic starts: its locals, message_start and ping emitted.
AsStart ==
    [pc |-> "streaming", frames |-> 0, content_index |-> 0, has_tool_use |-> FALSE,
     text_block_started |-> FALSE,
     out |-> <<Event("message_start", 0, "none"), Event("ping", 0, "none")>>]

\* stream_anthropic, the tool_use blocks of one chunk: n tool calls are left.
RECURSIVE emit_tool_calls(_, _)
emit_tool_calls(a, n) ==
    IF n = 0 THEN a
    ELSE LET closed == IF a.text_block_started
                       THEN [a EXCEPT !.out = Append(@, Event("content_block_stop",
                                                             a.content_index, "none")),
                                      !.content_index = @ + 1,
                                      !.text_block_started = FALSE]
                       ELSE a
             i == closed.content_index
         IN emit_tool_calls(
                [closed EXCEPT !.has_tool_use = TRUE,
                               !.out = @ \o <<Event("content_block_start", i, "tool_use"),
                                              Event("content_block_delta", i, "input_json_delta"),
                                              Event("content_block_stop", i, "none")>>,
                               !.content_index = i + 1],
                n - 1)

\* stream_anthropic leaving the text block open when a tool call follows.
stream_anthropic_chunk_keeps_text_open(a, has_text, tools) ==
    LET texted == IF has_text
                  THEN [a EXCEPT !.out = (IF a.text_block_started THEN @
                                          ELSE Append(@, Event("content_block_start",
                                                               a.content_index, "text")))
                                         \o <<Event("content_block_delta", a.content_index,
                                                    "text_delta")>>,
                                 !.text_block_started = TRUE]
                  ELSE a
    IN [emit_tool_calls([texted EXCEPT !.text_block_started = FALSE], tools)
           EXCEPT !.text_block_started = texted.text_block_started]

\* stream_anthropic, one chunk with candidates: its text (if any) as a delta of
\* the text block, opened when none is open, then its tool calls.
stream_anthropic_chunk(a, has_text, tools) ==
    LET texted == IF has_text
                  THEN [a EXCEPT !.out = (IF a.text_block_started THEN @
                                          ELSE Append(@, Event("content_block_start",
                                                               a.content_index, "text")))
                                         \o <<Event("content_block_delta", a.content_index,
                                                    "text_delta")>>,
                                 !.text_block_started = TRUE]
                  ELSE a
    IN emit_tool_calls(texted, tools)

\* stream_anthropic after the loop: the open text block is closed, then
\* message_delta with the stop_reason and message_stop.
stream_anthropic_end(a) ==
    [a EXCEPT !.pc = "ended",
              !.out = (IF a.text_block_started
                       THEN Append(@, Event("content_block_stop", a.content_index, "none"))
                       ELSE @)
                      \o <<Event("message_delta", 0,
                                 IF a.has_tool_use THEN "tool_use" ELSE "end_turn"),
                           Event("message_stop", 0, "none")>>]

\* _handle_anthropic_stream returns the StreamingResponse and the generator
\* starts.
AsOpen ==
    /\ astream.pc = "idle"
    /\ astream' = AsStart
    /\ UNCHANGED <<serverVars, onboard, tool_schema, model_call>>

\* One line of the upstream: not a data line, not JSON or without candidates
\* ("skip"), or a chunk with text and / or tool calls.
AsLine(line) ==
    /\ astream.pc = "streaming"
    /\ astream.frames < MaxFrames
    /\ astream' = IF line.data = "skip" THEN [astream EXCEPT !.frames = @ + 1]
                  ELSE [stream_anthropic_chunk(astream, line.has_text, line.tools)
                           EXCEPT !.frames = @ + 1]
    /\ UNCHANGED <<serverVars, onboard, tool_schema, model_call>>

\* The upstream ends: "data: [DONE]", or the response body ends.
AsDone ==
    /\ astream.pc = "streaming"
    /\ astream' = stream_anthropic_end(astream)
    /\ UNCHANGED <<serverVars, onboard, tool_schema, model_call>>

\* _sync_gemini_cli is called for a credential whose stored project_id is
\* `cached` ("none": it has none).
ObStart(cached) ==
    [pc |-> "load", cached |-> cached, project_id |-> cached, extracted |-> "none",
     polls |-> 0, undone |-> 0, slept |-> 0, success |-> FALSE, result_project |-> "none"]

ObCall(cached) ==
    /\ onboard.pc = "idle"
    /\ onboard' = ObStart(cached)
    /\ UNCHANGED <<serverVars, tool_schema, model_call, astream>>

\* _onboard_user returns what it extracts from the operation `lro_project`
\* ("none": no response.cloudaicompanionProject.id); a project makes
\* _sync_gemini_cli load the account again.
ob_onboarded(o, lro_project) ==
    [o EXCEPT !.extracted = lro_project,
              !.pc = IF lro_project # "none" THEN "reload" ELSE "project"]

\* _sync_gemini_cli, loadCodeAssist: it fails (the sync returns
\* success False), or it answers for an onboarded account with a project, or
\* for a new account (no currentTier, no project) with or without a default
\* tier among allowedTiers.
ObLoad(ans) ==
    /\ onboard.pc = "load"
    /\ onboard' = CASE ans = "error" -> [onboard EXCEPT !.pc = "returned"]
                   [] ans = "onboarded" -> [onboard EXCEPT !.extracted = "project-new",
                                                           !.pc = "project"]
                   [] ans = "new" -> [onboard EXCEPT !.pc = "onboard_user"]
                   [] OTHER -> [onboard EXCEPT !.pc = "project"]
    /\ UNCHANGED <<serverVars, tool_schema, model_call, astream>>

\* _onboard_user, the onboardUser call: it raises, or returns an operation that
\* is done (with or without a project) or not done (with or without a name).
ObOnboardUser(ans) ==
    /\ onboard.pc = "onboard_user"
    /\ onboard' = CASE ans = "pending" -> [onboard EXCEPT !.pc = "poll_sleep"]
                   [] ans = "done" -> ob_onboarded(onboard, "project-new")
                   [] OTHER -> ob_onboarded(onboard, "none")
    /\ UNCHANGED <<serverVars, tool_schema, model_call, astream>>

\* _onboard_user, asyncio.sleep(5) before a poll.
ObPollSleep ==
    /\ onboard.pc = "poll_sleep"
    /\ onboard' = [onboard EXCEPT !.slept = @ + POLL_SECS, !.pc = "poll_get"]
    /\ UNCHANGED <<serverVars, tool_schema, model_call, astream>>

\* _onboard_user, the answer of one GET of the operation: not done (next poll,
\* or the loop is exhausted after max_polls), done with a project, or done
\* without one / not 200 / an exception.
ob_polled(o, ans) ==
    CASE ans = "pending" ->
            IF o.polls + 1 < MAX_POLLS
            THEN [o EXCEPT !.polls = @ + 1, !.undone = @ + 1, !.pc = "poll_sleep"]
            ELSE ob_onboarded([o EXCEPT !.polls = @ + 1, !.undone = @ + 1], "none")
      [] ans = "done" -> ob_onboarded([o EXCEPT !.polls = @ + 1], "project-new")
      [] OTHER -> ob_onboarded([o EXCEPT !.polls = @ + 1], "none")

ObPollGet(ans) ==
    /\ onboard.pc = "poll_get"
    /\ onboard' = ob_polled(onboard, ans)
    /\ UNCHANGED <<serverVars, tool_schema, model_call, astream>>

\* _sync_gemini_cli, loadCodeAssist after a successful onboarding: its project
\* replaces the onboarded one when it names one; a failure is logged.
ObReload(ans) ==
    /\ onboard.pc = "reload"
    /\ onboard' = [onboard EXCEPT !.pc = "project",
                                  !.extracted = IF ans = "onboarded" THEN "project-other" ELSE @]
    /\ UNCHANGED <<serverVars, tool_schema, model_call, astream>>

\* _sync_gemini_cli failing when it has no project.
ob_finished_needs_project(o, ans) ==
    LET project_id == IF o.extracted # "none" THEN o.extracted ELSE o.project_id
    IN [o EXCEPT !.project_id = project_id, !.result_project = project_id,
                 !.success = project_id # "none", !.pc = "returned"]

\* _sync_gemini_cli from "Set project_id" on: the credential gets the
\* extracted project, else keeps its cached one; retrieveUserQuota is called
\* when there is a project and whatever it answers the sync returns success.
ob_finished(o, ans) ==
    LET project_id == IF o.extracted # "none" THEN o.extracted ELSE o.project_id
    IN [o EXCEPT !.project_id = project_id, !.result_project = project_id,
                 !.success = TRUE, !.pc = "returned"]

ObFinish(ans) ==
    /\ onboard.pc = "project"
    /\ ans # "ok" => (onboard.extracted # "none" \/ onboard.project_id # "none")
    /\ onboard' = ob_finished(onboard, ans)
    /\ UNCHANGED <<serverVars, tool_schema, model_call, astream>>

\* time.time() moves on.  (history: a deadline that has passed is forgotten.)
Tick(d) ==
    /\ ticks < MaxTicks
    /\ now' = now + d
    /\ ticks' = ticks + 1
    /\ rl_marked' = [a \in DOMAIN rl_marked |->
                         IF rl_marked[a] > now + d THEN rl_marked[a] ELSE 0]
    /\ UNCHANGED <<svcVars, dbVars, poolVars, lock, changes, recorded, sendVars, task, last_ret>>

\* The setting pool_schedule_mode is changed (PUT /settings).
SetMode(m) ==
    /\ changes < MaxChanges
    /\ m # pool_schedule_mode
    /\ pool_schedule_mode' = m
    /\ changes' = changes + 1
    /\ UNCHANGED <<svcVars, db_accounts, db_eligible, db_token, pool_cooldown, poolVars, lock, now, ticks, recorded, sendVars, task,
                   rl_marked, last_ret>>

\* An account stops or starts passing the filter of refresh's query: it is
\* disabled / enabled by the user, or a sync sets is_forbidden.
DbSetEligible(a) ==
    /\ changes < MaxChanges
    /\ a \in db_accounts
    /\ changes' = changes + 1
    /\ db_eligible' = IF a \in db_eligible THEN db_eligible \ {a} ELSE db_eligible \cup {a}
    /\ UNCHANGED <<svcVars, db_accounts, db_token, pool_schedule_mode, pool_cooldown, poolVars, lock, now, ticks, recorded, sendVars,
                   task, rl_marked, last_ret>>

\* The antigravity credential of an account loses its access token (frozen by
\* the refresher on invalid_grant) or gets one (login callback).
DbSetToken(a) ==
    /\ changes < MaxChanges
    /\ a \in db_accounts
    /\ changes' = changes + 1
    /\ db_token' = IF a \in db_token THEN db_token \ {a} ELSE db_token \cup {a}
    /\ UNCHANGED <<svcVars, db_accounts, db_eligible, pool_schedule_mode, pool_cooldown, poolVars, lock,
                   now, ticks, recorded, sendVars, task, rl_marked, last_ret>>

\* delete_account: the account's row goes, and its credentials with it
\* (cascade "all, delete-orphan"); the pool is not told.
DbDeleteAccount(a) ==
    /\ changes < MaxDeletes
    /\ a \in db_accounts
    /\ changes' = changes + 1
    /\ db_accounts' = db_accounts \ {a}
    /\ db_eligible' = db_eligible \ {a}
    /\ db_token' = db_token \ {a}
    /\ db_disabled' = db_disabled \ {a}
    /\ db_creds' = Restrict(db_creds, {k \in DOMAIN db_creds : k[1] # a})
    /\ UNCHANGED <<proxyVars, db_settings, rf, last_sync, callVars, pool_schedule_mode,
                   pool_cooldown, poolVars, lock, now, ticks, recorded, sendVars, task,
                   rl_marked, last_ret>>

\* ---------------------------------------------------------- specifications

\* The store holding n accounts, all of them eligible and with a token, the
\* settings being one of `modes` and one of `cooldowns`; the histories `rec`
\* are kept.
InitDb(n, modes, cooldowns, rec) ==
    /\ db_accounts = 1..n
    /\ db_eligible = db_accounts
    /\ db_token = db_accounts
    /\ pool_schedule_mode \in modes
    /\ pool_cooldown \in cooldowns
    /\ recorded = rec

\* The refresher's part of the store: the settings, the disabled accounts, and
\* for every account a credential of each kind with a token that expires in
\* ten minutes; the credentials in `synced` were refreshed 30 s before t0, those
\* in `bare` have no refresh token.  The refresher task has just been created.
InitRefresher(n, settings, disabled, synced, bare, t0) ==
    /\ db_settings \in settings
    /\ db_disabled \in disabled
    /\ db_creds = [id \in (1..n) \X Range(Kinds) |->
                      [access_token |-> 1, token_expires_at |-> t0 + 600,
                       last_sync_at |-> IF id \in synced THEN t0 - 30 ELSE 0,
                       refresh_token |-> id \notin bare]]
    /\ rf = RfStart(t0)

\* The store with the refresher's settings at their defaults (refresher off).
InitStoreWith(n, modes, cooldowns, rec) ==
    /\ InitDb(n, modes, cooldowns, rec)
    /\ InitRefresher(n, {SettingDefaults}, {{}}, {}, {}, 0)

\* The same with pool_cooldown at its default, "0".
InitStore(n, modes, rec) == InitStoreWith(n, modes, {0}, rec)

\* The module globals of cloudcode_proxy: no client, no server, not running.
InitProxy ==
    /\ http_client = None
    /\ proxy_server = None
    /\ proxy_running = FALSE
    /\ open_clients = {}
    /\ live_servers = {}
    /\ clients_made = 0

\* AccountPool.__init__, with the given account list, at time t0.
InitPoolAt(ids, t0) ==
    /\ account_ids = ids
    /\ current_index = 0
    /\ exhausted = {}
    /\ rate_limited = EmptyMap
    /\ session_bindings = EmptyMap
    /\ binding_timestamps = EmptyMap
    /\ last_request_time = EmptyMap
    /\ open_streams = [t \in Tasks |-> 0]
    /\ lock = NoTask
    /\ now = t0
    /\ ticks = 0
    /\ changes = 0
    /\ task = [t \in Tasks |-> TaskIdle]
    /\ rl_marked = [a \in AllAccounts |-> 0]
    /\ last_ret = [s \in Sessions |-> None]
    /\ InitProxy
    /\ last_sync = [called |-> FALSE]
    /\ onboard = [pc |-> "idle"]
    /\ tool_schema = [stage |-> "idle"]
    /\ model_call = [stage |-> "idle"]
    /\ astream = [pc |-> "idle"]

InitPool(ids) == InitPoolAt(ids, 0)

\* The steps of get_current, rotate and refresh, whoever called them; the end
\* of a cache_first sleep is WaitStep.
PoolStep(t) ==
    \/ GcMode(t)
    \/ GcLock(t)
    \/ GcRead(t)
    \/ RotLock(t)
    \/ RotDone(t)
    \/ RefQuery(t)
    \/ RefLock(t)

\* The steps of a forwarder serving requests of the given sessions, the upstream
\* answering within the given responses.
ClientStep(t, sessions, responses) ==
    \/ \E fp \in sessions : FwdStart(t, "v1", fp)
    \/ FwdStart(t, "native", NoSession)
    \/ FwdGot(t)
    \/ FwdCooldown(t)
    \/ \E resp \in responses : FwdResponse(t, resp)
    \/ StreamEnd(t)
    \/ PoolStep(t)

\* A cache_first sleep ends, which takes the clock to pass its deadline.
WaitStep(t) ==
    \/ GcWake(t)
    \/ GcRelock(t)

MainSessions == 1..(NumSessions - 1)

\* The pool as constructed; one task serves requests of two sessions, the other
\* tasks refresh the pool; time passes.
Init ==
    /\ InitStore(NumAccounts, Modes, {})
    /\ InitPool(<<>>)

Next ==
    \/ ClientStep(1, MainSessions, Responses)
    \/ WaitStep(1)
    \/ \E t \in Tasks \ {1} : AdminRefresh(t) \/ RefQuery(t) \/ RefLock(t)
    \/ \E d \in TickSteps : Tick(d)

Spec == Init /\ [][Next]_vars

\* The process after its start-up: every task serves POST /start and POST /stop
\* of the proxy API; the eligibility of an account may change meanwhile.
InitProxyApi ==
    /\ InitStore(NumAccounts, {"balance"}, {})
    /\ InitPool(<<>>)

NextProxyApi ==
    \/ \E t \in Tasks :
          \/ ProxyStart(t)
          \/ RefQuery(t)
          \/ RefLock(t)
          \/ ProxyServe(t)
          \/ ProxyStop(t)
          \/ ProxyStopClosed(t)
    \/ \E a \in AllAccounts : DbSetEligible(a)

SpecProxyApi == InitProxyApi /\ [][NextProxyApi]_vars

\* The refresher from its creation by lifespan to its end, with two accounts
\* of two credentials each; the master flag, the gemini toggle and the interval
\* are as the user set them; a setting or an account may change; lifespan may
\* cancel the task; the token endpoint answers 200 or an error of the request.
InitRefresherTask ==
    /\ InitDb(NumAccounts, {"balance"}, {0}, {})
    /\ InitPoolAt(<<>>, StartTime)
    /\ InitRefresher(NumAccounts,
                     {[SettingDefaults EXCEPT !["auto_refresh_enabled"] = e,
                                              !["auto_refresh_gemini_enabled"] = g,
                                              !["auto_refresh_interval"] = i] :
                          e \in {"true", "false"}, g \in {"true", "false"},
                          i \in {"1", "0", "abc"}},
                     {{}, {1}}, {<<2, "gemini_cli">>}, {}, StartTime)

NextRefresherTask ==
    \/ RfWake
    \/ \E fails \in BOOLEAN : RfGetSetting(fails) \/ RfLoad(fails)
    \/ \E ans \in {a \in TokenAnswers : a.expires_in = 3600 \/ a.error = "invalid_request"} :
          RfRefresh(ans)
    \/ RfSync
    \/ \E swallowed \in BOOLEAN : RfCancel(swallowed)
    \/ RfStoreChange

SpecRefresherTask == InitRefresherTask /\ [][NextRefresherTask]_vars

\* The refresher switched on with an interval of one minute, running
\* undisturbed; one credential has no refresh token; the token endpoint
\* answers anything.
InitRefreshCalls ==
    /\ InitDb(NumAccounts, {"balance"}, {0}, {})
    /\ InitPoolAt(<<>>, StartTime)
    /\ InitRefresher(NumAccounts,
                     {[SettingDefaults EXCEPT !["auto_refresh_enabled"] = "true",
                                              !["auto_refresh_interval"] = "1"]},
                     {{}}, {}, {<<2, "gemini_cli">>}, StartTime)

NextRefreshCalls ==
    \/ RfWake
    \/ RfGetSetting(FALSE)
    \/ RfLoad(FALSE)
    \/ \E ans \in TokenAnswers : RfRefresh(ans)
    \/ RfSync

SpecRefreshCalls == InitRefreshCalls /\ [][NextRefreshCalls]_vars

\* sync_account_info called for accounts of every kind: the gemini_cli
\* credential's answer lists up to two ineligible tiers, the antigravity
\* credential's up to one (a successful _sync_antigravity result has no
\* validation_required).
InitSync ==
    /\ InitStore(NumAccounts, {"balance"}, {})
    /\ InitPool(<<>>)

NextSync ==
    SyncAccount({NewAccount, [NewAccount EXCEPT !.is_forbidden = TRUE,
                                                !.status_reason = "UNSUPPORTED_LOCATION",
                                                !.has_ineligible = TRUE]},
                CredSyncs({<<>>} \cup {<<e>> : e \in IneligibleEntries}
                                \cup {<<e, f>> : e, f \in IneligibleEntries},
                          {<<>>}),
                {c \in CredSyncs({<<>>} \cup {<<e>> : e \in IneligibleEntries}, {<<>>}) :
                    c.result.success => c.result.validation_required = "false"})

SpecSync == InitSync /\ [][NextSync]_vars

\* Bucket lists of up to MaxBuckets buckets.
BucketLists == UNION {[1..n -> Buckets] : n \in 0..MaxBuckets}

\* sync_account_info called for accounts whose credentials synced without
\* findings: retrieveUserQuota and fetchAvailableModels answer any list of up
\* to two buckets / models, with and without a remainingFraction.
NextSyncQuota ==
    SyncAccount({a \in AccountRows : ~a.is_forbidden /\ a.status_reason = "none"
                                      /\ ~a.has_ineligible},
                {c \in CredSyncs({<<>>}, BucketLists) :
                    /\ c.tier = "free-tier" /\ c.result.success
                    /\ c.result.validation_required = "false"},
                {[c EXCEPT !.quota_data = antigravity_quota(raw)] :
                    c \in {d \in CredSyncs({<<>>}, {<<>>}) :
                              /\ d.tier = "free-tier" /\ d.result.success
                              /\ d.result.validation_required = "false"},
                    raw \in UNION {[1..n -> [quotaInfo : BOOLEAN,
                                             remainingFraction : Fractions \cup {NoFraction}]] :
                                      n \in 0..MaxBuckets}})

SpecSyncQuota == InitSync /\ [][NextSyncQuota]_vars

\* _sync_gemini_cli called for a credential with or without a cached project;
\* every call it makes is answered in every way.
InitOnboard ==
    /\ InitStore(NumAccounts, {"balance"}, {})
    /\ InitPool(<<>>)

NextOnboard ==
    \/ \E cached \in {"none", "project-cached"} : ObCall(cached)
    \/ \E ans \in {"error", "onboarded", "new", "no_default_tier"} : ObLoad(ans)
    \/ \E ans \in {"error", "pending", "done", "done_no_project", "no_name"} : ObOnboardUser(ans)
    \/ ObPollSleep
    \/ \E ans \in {"error", "not_200", "pending", "done", "done_no_project"} : ObPollGet(ans)
    \/ \E ans \in {"error", "onboarded", "no_project"} : ObReload(ans)
    \/ \E ans \in {"ok", "forbidden", "error"} : ObFinish(ans)

\* The object with, for each of the given keys, no entry or one of the key's
\* values: Opt(k, V) is the choice for one key.
Opt(k, V) == {{}} \cup {{<<k, v>>} : v \in V}

\* Schemas of a leaf: a type and an extension keyword, each present or not.
LeafSchemas ==
    {Dict(a \cup b) : a \in Opt("type", {Atom("string")}),
                      b \in Opt("additionalProperties", {Atom("false")})}

\* Objects one level up, read as a schema (type, items, an extension keyword)
\* or as the value of "properties" (properties named location, type, items).
MidSchemas ==
    {Dict(a \cup b \cup c \cup d) :
        a \in Opt("type", {Atom("object")} \cup LeafSchemas),
        b \in Opt("location", LeafSchemas),
        c \in Opt("additionalProperties", {Atom("false")}),
        d \in Opt("items", LeafSchemas)}

\* Parameter schemas of a tool.
ToolSchemas ==
    {Dict(a \cup b \cup c \cup d \cup e) :
        a \in Opt("type", {Atom("object")}),
        b \in Opt("properties", MidSchemas),
        c \in Opt("items", LeafSchemas),
        d \in Opt("additionalProperties", {Atom("false")}),
        e \in Opt("enum", {List(<<Atom("a")>>),
                           List(<<Dict({<<"type", Atom("x")>>, <<"title", Atom("y")>>})>>)})}

\* A tool declaration is converted, for every parameter schema.
InitTools ==
    /\ InitStore(NumAccounts, {"balance"}, {})
    /\ InitPool(<<>>)

NextTools == ConvertTools(ToolSchemas)

SpecTools == InitTools /\ [][NextTools]_vars

\* Model names and patterns, as sequences of characters.
ModelNames == {<<"a", "b">>, <<"b", "b">>, <<"b">>, <<"[", "a">>}

Patterns ==
    {<<"a", "b">>, <<"a", "*">>, <<"?", "b">>, <<"[", "a", "b", "]", "b">>, <<"[", "a">>, <<"b">>}

\* Tables of two rules, rule id mapping to target id, in either order of
\* creation.
MappingTables ==
    {[id \in 1..2 |-> [pattern |-> pat[id], target |-> <<"t", IF id = 1 THEN "1" ELSE "2">>,
                       is_active |-> id \in act, priority |-> prio[id],
                       created_at |-> IF first = 1 THEN id ELSE 3 - id]] :
        pat \in [1..2 -> Patterns], act \in SUBSET (1..2), prio \in [1..2 -> 0..1],
        first \in 1..2}

\* apply_model_mapping is called for every table and model name.
InitMapping ==
    /\ InitStore(NumAccounts, {"balance"}, {})
    /\ InitPool(<<>>)

NextMapping == ApplyModelMapping(MappingTables, ModelNames)

SpecMapping == InitMapping /\ [][NextMapping]_vars

\* A streaming POST /v1/messages whose upstream answers 200 with up to
\* MaxFrames lines, each chunk with up to MaxToolCalls function calls.
InitAnthropicStream ==
    /\ InitStore(NumAccounts, {"balance"}, {})
    /\ InitPool(<<>>)

NextAnthropicStream ==
    \/ AsOpen
    \/ \E line \in {[data |-> "skip", has_text |-> FALSE, tools |-> 0]}
                   \cup [data : {"chunk"}, has_text : BOOLEAN, tools : 0..MaxToolCalls] :
          AsLine(line)
    \/ AsDone

SpecAnthropicStream == InitAnthropicStream /\ [][NextAnthropicStream]_vars

\* cache_first with both tasks serving requests of one session or refreshing
\* the pool, the upstream answering 200 or 429; a client may disconnect,
\* which cancels the task of its request while it is in get_current's wait.
InitCancel ==
    /\ InitStore(NumAccounts, {"cache_first"}, {})
    /\ InitPool(refresh_query)

NextCancel ==
    \/ \E t \in Tasks : ClientStep(t, {1}, {"200", "429"})
    \/ \E t \in Tasks : WaitStep(t)
    \/ \E t \in Tasks : GcCancelSleep(t) \/ GcCancelRelocked(t) \/ GcCancelRelock(t)
    \/ \E t \in Tasks : AdminRefresh(t)
    \/ Tick(RATE_LIMIT_SECS)

SpecCancel == InitCancel /\ [][NextCancel]_vars

\* cache_first with task 1 serving requests of the sessions and the other
\* tasks refreshing the pool, while an account is disabled, enabled or deleted
\* in the store; the status each request ends with is kept.
InitEmptied ==
    /\ \E n \in 1..NumAccounts : InitStore(n, {"cache_first"}, {"result"})
    /\ InitPool(refresh_query)

NextEmptied ==
    \/ ClientStep(1, MainSessions, {"200", "429"})
    \/ WaitStep(1)
    \/ \E t \in Tasks \ {1} : AdminRefresh(t) \/ RefQuery(t) \/ RefLock(t)
    \/ Tick(RATE_LIMIT_SECS)
    \/ \E a \in AllAccounts : DbSetEligible(a) \/ DbDeleteAccount(a)

SpecEmptied == InitEmptied /\ [][NextEmptied]_vars

SpecOnboard == InitOnboard /\ [][NextOnboard]_vars /\ WF_vars(NextOnboard)

\* The pool after start_proxy in mode cache_first; every task serves requests
\* (one session, or none given) or refreshes the pool; the upstream answers 200
\* or 429; an account may stop or start being eligible; time passes.
InitRate ==
    /\ InitStore(NumAccounts, {"cache_first"}, {"rl_marked"})
    /\ InitPool(refresh_query)

NextRate ==
    \/ \E t \in Tasks : ClientStep(t, {1}, {"200", "429"})
    \/ \E t \in Tasks : WaitStep(t)
    \/ \E t \in Tasks : AdminRefresh(t)
    \/ Tick(RATE_LIMIT_SECS)
    \/ \E a \in AllAccounts : DbSetEligible(a)

SpecRate == InitRate /\ [][NextRate]_vars

\* The pool after start_proxy in a sticky mode; one task serves requests of two
\* sessions or of none; an account may lose or get its token; time passes.
InitSticky ==
    /\ InitStore(NumAccounts, StickyModes, {"last_ret"})
    /\ InitPool(refresh_query)

NextSticky ==
    \/ ClientStep(1, MainSessions, Responses)
    \/ WaitStep(1)
    \/ \E d \in TickSteps : Tick(d)
    \/ \E a \in AllAccounts : DbSetToken(a)

SpecSticky == InitSticky /\ [][NextSticky]_vars

\* The pool as constructed, the store holding one account or more, in any
\* mode; one task serves requests of two sessions or of none, the other tasks
\* refresh the pool; an account may stop or start being eligible, lose or get
\* its token.
InitChanging ==
    /\ \E n \in 1..NumAccounts : InitStore(n, Modes, {})
    /\ InitPool(<<>>)

NextChanging ==
    \/ ClientStep(1, MainSessions, Responses)
    \/ \E t \in Tasks \ {1} : AdminRefresh(t) \/ RefQuery(t) \/ RefLock(t)
    \/ \E a \in AllAccounts : DbSetEligible(a)
    \/ \E a \in AllAccounts : DbSetToken(a)

SpecChanging == InitChanging /\ [][NextChanging]_vars

\* The pool after start_proxy in mode balance; one task serves requests of
\* NumSessions sessions, more than MAX_BINDINGS, or of none.
InitBinding ==
    /\ InitStore(NumAccounts, {"balance"}, {})
    /\ InitPool(refresh_query)

NextBinding ==
    ClientStep(1, Sessions, Responses)

SpecBinding == InitBinding /\ [][NextBinding]_vars

\* The answers that make the forwarders end, refresh, rotate, or go on without
\* rotating: one of each kind.
RetryResponses == {"200", "401", "429", "500", "503", "timeout", "error"}

\* The pool as constructed, the store holding RetryAccounts accounts, in mode
\* balance; one task serves requests of one session or of none, the other tasks
\* refresh the pool.
InitRetry ==
    /\ InitStore(RetryAccounts, {"balance"}, {})
    /\ InitPool(<<>>)

NextRetry ==
    \/ ClientStep(1, {1}, RetryResponses)
    \/ \E t \in Tasks \ {1} : AdminRefresh(t) \/ RefQuery(t) \/ RefLock(t)

SpecRetry == InitRetry /\ [][NextRetry]_vars

\* The pool after start_proxy in mode balance, with a cooldown set, at a time
\* later than any cooldown; every task serves requests of one session, or of
\* none, which the upstream answers 200, 401 or 429; time passes by the longest
\* cooldown.
InitCooldown ==
    /\ InitStoreWith(NumAccounts, {"balance"}, {MaxCooldown \div 2, MaxCooldown}, {})
    /\ InitPoolAt(refresh_query, StartTime)

NextCooldown ==
    \/ \E t \in Tasks : ClientStep(t, {1}, {"200", "401", "429"})
    \/ \E t \in Tasks : FwdCooldownWake(t)
    \/ Tick(MaxCooldown)

SpecCooldown == InitCooldown /\ [][NextCooldown]_vars

\* The steps of a forwarder of any surface.
ForwardStep(t, sessions, responses) ==
    \/ ClientStep(t, sessions, responses)
    \/ \E fp \in sessions : FwdStart(t, "v1stream", fp)
    \/ FwdStart(t, "buffered", NoSession)

\* The pool after start_proxy in mode balance, the store holding one account or
\* more; one task serves requests of one session, or of none, on every surface,
\* the upstream answering anything; the outcome of each request is kept.
InitForward ==
    /\ \E n \in 1..NumAccounts : InitStore(n, {"balance"}, {"result"})
    /\ InitPool(refresh_query)

NextForward ==
    ForwardStep(1, {1}, Responses)

SpecForward == InitForward /\ [][NextForward]_vars

\* ------------------------------------------------------------------ claims

\* The accounts of the list that _is_available accepts at the current time.
AvailableNow == {a \in Range(account_ids) : is_available(PoolState, a, now)}

\* Task t's get_current(request) returns in this step.
GetCurrentReturns(t) == task[t].pc # "got" /\ task'[t].pc = "got"

\* An await of _read_account made by task t's get_current ends in this step.
ReadEnds(t) == task[t].pc = "gc_read" /\ task'[t] # task[t]

\* C1: in mode balance or performance, a get_current(request) that returns an
\* account never returns one that is exhausted or rate-limited at the moment of
\* the return while some listed account is available; the first binding of a
\* new session included.
C1_NeverUnavailable ==
    [][\A t \in Tasks :
          (/\ GetCurrentReturns(t)
           /\ task'[t].mode \in {"balance", "performance"}
           /\ task'[t].account # None
           /\ AvailableNow' # {})
          => is_available(PoolState', task'[t].account, now')]_vars

\* A step of get_current that clears all marks: the section for mode
\* performance / no request finding no available account in the list, or the
\* final fallback after the store gave no row for the assigned account.
ClearsAllMarks ==
    /\ exhausted' = {}
    /\ rate_limited' = EmptyMap
    /\ \E t \in Tasks :
          \/ task[t].pc = "gc_lock" /\ task'[t].pc = "gc_read" /\ AvailableNow = {}
          \/ ReadEnds(t) /\ task[t].stage = "tail"

\* A cache_first waiter bound to account a takes the lock again after its sleep.
WaiterWakes(a) ==
    \E t \in Tasks :
        task[t].pc = "gc_relock" /\ task[t].bound = a /\ task'[t].pc # "gc_relock"

\* The locked section of a refresh whose query did not return account a.
RefreshDrops(a) ==
    \E t \in Tasks :
        task[t].pc = "ref_lock" /\ task'[t].pc # "ref_lock" /\ a \notin Range(task[t].ids)

\* Task t's rotate marks its account in this step.
RotateMarks(t) == task[t].pc = "rot_lock" /\ task'[t].pc # "rot_lock"

C3_AtMostMinSizeFive ==
    \A t \in Tasks : task[t].sends <= Min(task[t].n0, MAX_RETRY_CAP)

\* C3 (amended): a request causes at most max(1, min(pool.size, 5)) upstream
\* sends, pool.size being the size the forwarder read when the request arrived.
C3_AtMostOneOrMinSizeFive ==
    \A t \in Tasks : task[t].sends <= Max(1, Min(task[t].n0, MAX_RETRY_CAP))

\* C3 witness: a request that arrived at a pool of more than 5 accounts has
\* been sent upstream 5 times.
C3_Witness ==
    \E t \in Tasks : task[t].n0 > MAX_RETRY_CAP /\ task[t].sends = MAX_RETRY_CAP

\* Task t's get_current(request), in a sticky mode, takes the pool lock now.
StickyCallLocks(t) ==
    /\ task[t].pc = "gc_lock" /\ task'[t].pc # "gc_lock"
    /\ task[t].mode \in StickyModes
    /\ task[t].gc_fp # NoSession

\* Session fp has a binding that the clean-up of a call made now keeps, to an
\* account of the list.
BindingHolds(fp) ==
    /\ fp \in DOMAIN session_bindings
    /\ now - binding_timestamps[fp] <= BINDING_TTL
    /\ Cardinality(DOMAIN session_bindings) <= MAX_BINDINGS
    /\ session_bindings[fp] \in Range(account_ids)

\* C4 (as stated): in a sticky mode, a get_current(request) that returns an
\* account returns the account the previous call with the same fingerprint
\* returned, unless that account is unavailable at this call.  (Stated for a
\* previous account that is available at the time the call read the clock and
\* when it returns, and whose token the store still gives.)
C4_SameAsPreviousCall ==
    [][\A t \in Tasks :
          LET fp == task[t].gc_fp
          IN (/\ GetCurrentReturns(t)
              /\ task'[t].mode \in StickyModes
              /\ fp # NoSession
              /\ task'[t].account # None
              /\ last_ret[fp] # None
              /\ read_account(last_ret[fp])
              /\ is_available(PoolState, last_ret[fp], task[t].nw)
              /\ is_available(PoolState', last_ret[fp], now'))
             => task'[t].account = last_ret[fp]]_vars

\* C4 (amended): in a sticky mode, a get_current(request) of a session whose
\* binding holds at the call, to an account that is available, selects the
\* bound account and leaves the binding as it is; and it returns that account
\* when the store still gives the account's token.
C4_BoundAccountReturned ==
    [][\A t \in Tasks :
          /\ (StickyCallLocks(t) /\ BindingHolds(task[t].gc_fp)
              /\ is_available(PoolState, session_bindings[task[t].gc_fp], now))
             => /\ task'[t].pc = "gc_read"
                /\ task'[t].cand = session_bindings[task[t].gc_fp]
                /\ task'[t].stage = "bound"
                /\ session_bindings' = session_bindings
          /\ (ReadEnds(t) /\ task[t].stage = "bound" /\ read_account(task[t].cand))
             => /\ task'[t].pc = "got"
                /\ task'[t].account = task[t].cand
                /\ session_bindings' = session_bindings]_vars

\* C4 witness: a session that was served account a before calls again, its
\* binding to a holds, and the call has selected a, whose token is readable.
C4_Witness ==
    \E t \in Tasks :
        /\ task[t].pc = "gc_read" /\ task[t].stage = "bound"
        /\ task[t].mode \in StickyModes
        /\ last_ret[task[t].gc_fp] = task[t].cand
        /\ session_bindings[task[t].gc_fp] = task[t].cand
        /\ read_account(task[t].cand)

\* C5 (as stated): an id that is in `exhausted` leaves it only in the locked
\* section of a refresh; no step of get_current or rotate removes it.
C5_ExhaustedUntilRefresh ==
    [][\A a \in AllAccounts :
          (a \in exhausted /\ a \notin exhausted')
          => \E t \in Tasks : task[t].pc = "ref_lock" /\ task'[t].pc # "ref_lock"]_vars

\* C5 (amended): rotate with a reason other than "rate_limited" puts the id
\* into `exhausted`; the id leaves it only when get_current clears all marks
\* (no available account found, or the final fallback), or when a refresh
\* drops the id from the list; a refresh that keeps the id keeps the mark.
C5_ExhaustedUntilClearedOrDropped ==
    [][/\ \A t \in Tasks :
             (RotateMarks(t) /\ task[t].reason # "rate_limited")
             => task[t].account \in exhausted'
       /\ \A a \in AllAccounts :
             (a \in exhausted /\ a \notin exhausted')
             => ClearsAllMarks \/ RefreshDrops(a)]_vars

\* C5 witness: an account of the list is exhausted, and the get_current of the
\* request's next attempt has returned another account.
C5_Witness ==
    \E a \in exhausted : \E t \in Tasks :
        /\ a \in Range(account_ids)
        /\ task[t].pc = "got"
        /\ task[t].attempt > 0
        /\ task[t].account \notin {None, a}

\* The get_current that task t's rotate awaits takes the pool lock now.
RotateSelects(t) ==
    task[t].pc = "gc_lock" /\ task'[t].pc # "gc_lock" /\ task[t].ret = "rotate"

\* C6 (as stated): when the get_current of a rotate finds no available account,
\* it clears all exhausted and rate-limited marks.
C6_ClearsWhenNoneAvailable ==
    [][\A t \in Tasks :
          (RotateSelects(t) /\ AvailableNow = {})
          => exhausted' = {} /\ rate_limited' = EmptyMap]_vars

\* C6 (amended): when the get_current of a rotate finds the list non-empty and
\* no account of it available, it clears all marks and selects one account of
\* the list; and rotate returns the account its get_current selected when the
\* store gives its token, none otherwise, without another selection.
C6_ClearsAndSelectsOnce ==
    [][\A t \in Tasks :
          /\ (RotateSelects(t) /\ account_ids # <<>> /\ AvailableNow = {})
             => /\ exhausted' = {} /\ rate_limited' = EmptyMap
                /\ task'[t].pc = "gc_read"
                /\ task'[t].cand \in Range(account_ids)
          /\ (ReadEnds(t) /\ task[t].ret = "rotate")
             => /\ task'[t].pc = "rot_done"
                /\ task'[t].rotated =
                       IF read_account(task[t].cand) THEN task[t].cand ELSE None]_vars

\* C6 witness: a rotate has returned an account although every account of the
\* list was marked: the marks are gone.
C6_Witness ==
    \E t \in Tasks :
        /\ task[t].pc = "rot_done" /\ task[t].rotated # None
        /\ Len(account_ids) = NumAccounts
        /\ exhausted = {} /\ rate_limited = EmptyMap

\* C7: the ids that the query of refresh returns all own an antigravity
\* credential with an access token, and the list after refresh is these ids; so
\* after refresh the list holds only accounts that had a usable token.
C7_ListedHaveToken ==
    [][\A t \in Tasks :
          /\ (task[t].pc = "ref_query" /\ task'[t].pc = "ref_lock")
             => \A a \in Range(task'[t].ids) : read_account(a)
          /\ (task[t].pc = "ref_lock" /\ task'[t].pc # "ref_lock")
             => account_ids' = task[t].ids]_vars

\* C8: the pool never holds more than MAX_BINDINGS session bindings, the state
\* right after get_current bound a new session included.
C8_BindingsWithinLimit ==
    Cardinality(DOMAIN session_bindings) <= MAX_BINDINGS

\* cache_first: a call of a session whose binding holds, to an account that is
\* rate-limited and not exhausted, releases the lock and sleeps until the
\* account's deadline; it wakes no earlier; and awake it selects the bound
\* account.  The binding stays as it is.
CacheFirstWaits ==
    \A t \in Tasks :
        LET fp == task[t].gc_fp
        IN /\ (/\ StickyCallLocks(t) /\ task[t].mode = "cache_first"
               /\ BindingHolds(fp)
               /\ session_bindings[fp] \notin exhausted
               /\ session_bindings[fp] \in DOMAIN rate_limited
               /\ rate_limited[session_bindings[fp]] > now)
              => /\ task'[t].pc = "gc_sleep"
                 /\ task'[t].wake_at = rate_limited[session_bindings[fp]]
                 /\ lock' = NoTask
                 /\ session_bindings' = session_bindings
           /\ (task[t].pc = "gc_sleep" /\ task'[t].pc # "gc_sleep")
              => now >= task[t].wake_at
           /\ (task[t].pc = "gc_relock" /\ task'[t].pc # "gc_relock")
              => /\ task'[t].pc = "gc_read"
                 /\ task'[t].cand = task[t].bound
                 /\ session_bindings' = session_bindings

BalanceSwitches ==
    \A t \in Tasks :
        LET fp == task[t].gc_fp
        IN (/\ StickyCallLocks(t) /\ task[t].mode = "balance"
            /\ BindingHolds(fp)
            /\ ~is_available(PoolState, session_bindings[fp], now)
            /\ AvailableNow # {})
           => /\ task'[t].pc = "gc_read"
              /\ task'[t].stage = "fallback"
              /\ task'[t].cand \in AvailableNow
              /\ session_bindings' = session_bindings

\* C10 (as stated): in balance a call whose bound account is unavailable while
\* another account is available returns an available account, the binding
\* unchanged.
C10_HotSwitchKeepsBinding ==
    [][/\ BalanceSwitches
       /\ \A t \in Tasks :
             (/\ ReadEnds(t) /\ task[t].stage = "fallback"
              /\ ~is_available(PoolState, task[t].bound, task[t].nw))
             => /\ task'[t].pc = "got"
                /\ task'[t].account = task[t].cand
                /\ session_bindings' = session_bindings]_vars

\* C10 (amended): as C10, the available account being returned and the binding
\* kept when the store gives the token of the account selected.
C10_HotSwitchKeepsBindingIfReadable ==
    [][/\ BalanceSwitches
       /\ \A t \in Tasks :
             (/\ ReadEnds(t) /\ task[t].stage = "fallback"
              /\ ~is_available(PoolState, task[t].bound, task[t].nw)
              /\ read_account(task[t].cand))
             => /\ task'[t].pc = "got"
                /\ task'[t].account = task[t].cand
                /\ session_bindings' = session_bindings]_vars

\* C10 witness: a balance call has selected an available account other than
\* the unavailable bound one, and the store gives its token.
C10_Witness ==
    \E t \in Tasks :
        /\ task[t].pc = "gc_read" /\ task[t].stage = "fallback"
        /\ task[t].mode = "balance"
        /\ read_account(task[t].cand)
        /\ session_bindings[task[t].gc_fp] = task[t].bound
        /\ task[t].bound # task[t].cand
        /\ ~is_available(PoolState, task[t].bound, now)
        /\ is_available(PoolState, task[t].cand, now)

\* Task t runs in this step a section of get_current, rotate or refresh that
\* holds the pool lock: it takes the free lock ("async with self._lock", the
\* re-acquire after the cache_first sleep), or goes on with the lock it kept
\* over an await of _read_account.
HoldsLock(t) ==
    \/ task[t].pc \in {"gc_lock", "gc_relock", "rot_lock", "ref_lock"} /\ lock = NoTask
    \/ task[t].pc = "gc_read" /\ lock = t

\* The pool's runtime state: list, cursor, marks, bindings and their
\* timestamps, and the last request times.
PoolRuntimeState == <<poolVars, last_request_time>>

\* C11: every step that changes the pool's runtime state (account list, cursor,
\* exhausted, rate_limited, bindings, binding timestamps, last request times) is
\* a step of a task that holds the pool lock while it makes the change.
C11_MutatedUnderLock ==
    [][PoolRuntimeState' # PoolRuntimeState
       => \E t \in Tasks : task'[t] # task[t] /\ HoldsLock(t)]_vars

\* C12: a get_current suspended in the cache_first wait (asleep, or woken and
\* waiting to take the lock again) does not hold the pool lock, and whoever
\* holds it meanwhile is a task inside get_current's awaits of _read_account,
\* which go on without the waiter; so the calls of other tasks take the lock
\* and complete while it waits.
C12_WaiterHoldsNoLock ==
    \A t \in Tasks :
        task[t].pc \in {"gc_sleep", "gc_relock"}
        => /\ lock # t
           /\ lock # NoTask => task[lock].pc = "gc_read"

\* C12 witness: while one task sleeps in the cache_first wait, another task has
\* taken the lock and is inside its own get_current.
C12_Witness ==
    \E t, u \in Tasks :
        /\ t # u
        /\ task[t].pc = "gc_sleep"
        /\ now < task[t].wake_at
        /\ lock = u
        /\ task[u].pc = "gc_read"

\* Task t's forwarder calls mark_request and sends in this step.
MarksRequest(t) == task[t].pc \in {"cooldown", "cd_sleep"} /\ task'[t].pc = "sent"

\* C13: with pool_cooldown = c > 0, a request is sent on an account (its
\* mark_request) no sooner than c seconds after the previous request sent on
\* the same account, whatever the interleaving of the forwarders.
C13_RequestsSpaced ==
    [][\A t \in Tasks :
          (/\ MarksRequest(t)
           /\ pool_cooldown > 0
           /\ task[t].account \in DOMAIN last_request_time)
          => now - last_request_time[task[t].account] >= pool_cooldown]_vars

\* The upstream's answer to task t's send arrives in this step (the answer is
\* task'[t].resp where the outcomes are kept).
Answered(t) == task[t].pc = "sent" /\ task'[t] # task[t]

\* The answers no classifier rule is about: a status other than 429, quota-403,
\* capacity-503, 404 and 401, or an exception of the transport.
Unclassified == {"403", "500", "503", "timeout", "error"}

\* C14: an upstream failure that is not classifier-driven is surfaced on the
\* attempt where it occurs: the request ends there (its response is returned, or
\* streamed, to the client), with no other attempt and no rotate.
C14_UnclassifiedSurfaced ==
    [][\A t \in Tasks :
          (Answered(t) /\ task'[t].resp \in Unclassified)
          => task'[t].pc \in {"idle", "streaming"}]_vars

\* C15: an upstream 403 that is not a quota error is passed through with status
\* 403 and ends the request: no rotate, no other attempt, exhausted and
\* rate_limited as they were; on every surface.
C15_Plain403PassedThrough ==
    [][\A t \in Tasks :
          (Answered(t) /\ task'[t].resp = "403")
          => /\ task'[t].pc = "idle"
             /\ task'[t].result = "403"
             /\ task'[t].sends = task[t].sends
             /\ exhausted' = exhausted
             /\ rate_limited' = rate_limited]_vars

\* C15 witness: a request ended with 403 on its first attempt, the upstream
\* having answered a plain 403, while the retry budget allowed another attempt.
C15_Witness ==
    \E t \in Tasks :
        /\ task[t].pc = "idle"
        /\ task[t].resp = "403"
        /\ task[t].result = "403"
        /\ task[t].attempt = 0
        /\ task[t].max_retries > 1

\* C16: every upstream 401 a forwarder sees is followed by pool.refresh()
\* before the request returns, and when the retry budget is not used up the
\* next attempt is made after that refresh.
C16_RefreshAfter401 ==
    [][\A t \in Tasks :
          /\ (Answered(t) /\ task'[t].resp = "401") => task'[t].pc = "ref_query"
          /\ (/\ task[t].pc = "ref_lock" /\ task'[t] # task[t]
              /\ task[t].after = "continue"
              /\ task[t].attempt + 1 < Max(task[t].max_retries, 1))
             => /\ task'[t].pc = "gc_mode"
                /\ task'[t].attempt = task[t].attempt + 1]_vars

\* The native passthrough forwarders, streaming and buffered.
NativeSurfaces == {"native", "buffered"}

\* C17: the native forwarders run the retry loop of the /v1 surfaces: an
\* attempt goes from get_current to wait_cooldown, its send comes with
\* mark_request for the chosen account, and an upstream 404 or capacity-503 is
\* answered by rotate, a 401 by refresh.
C17_NativeSharesLoop ==
    [][\A t \in Tasks :
          task[t].surface \in NativeSurfaces
          => /\ (task[t].pc = "got" /\ task[t].account # None /\ task'[t] # task[t])
                => task'[t].pc = "cooldown"
             /\ (task[t].pc # "sent" /\ task'[t].pc = "sent")
                => /\ task[t].account \in DOMAIN last_request_time'
                   /\ last_request_time'[task[t].account] = now
             /\ (Answered(t) /\ task'[t].resp \in {"404", "503capacity"})
                => task'[t].pc = "rot_lock"
             /\ (Answered(t) /\ task'[t].resp = "401")
                => task'[t].pc = "ref_query"]_vars

\* Task t's forwarder still uses a session or response it opened for
\* streaming: the send is under way on a session made for a stream, or the
\* response is being streamed to the client.
UsesStream(t) ==
    \/ task[t].pc = "streaming"
    \/ task[t].pc = "sent" /\ task[t].surface = "v1stream"

\* C18: every session or response opened for a streaming attempt is closed
\* once the attempt is over, on every path (stream delivered, client
\* disconnect, error status before rotate, exception of the send): a task
\* holds one open while it sends or streams, and none otherwise.
C18_StreamsClosed ==
    \A t \in Tasks : open_streams[t] = IF UsesStream(t) THEN 1 ELSE 0

\* Task t's refresh() returns in this step.
RefreshReturns(t) == task[t].pc = "ref_lock" /\ task'[t] # task[t]

\* C19: when refresh() returns, the account list is exactly the stored accounts
\* that are active, not forbidden and not disabled; every exhausted id, every
\* key of rate_limited and every account a session is bound to is in the list;
\* and the cursor is smaller than the list's length (0 for an empty list).
C19_AfterRefresh ==
    [][\A t \in Tasks :
          RefreshReturns(t)
          => /\ account_ids' = refresh_query'
             /\ exhausted' \subseteq Range(account_ids')
             /\ DOMAIN rate_limited' \subseteq Range(account_ids')
             /\ \A k \in DOMAIN session_bindings' :
                    session_bindings'[k] \in Range(account_ids')
             /\ DOMAIN binding_timestamps' = DOMAIN session_bindings'
             /\ IF account_ids' = <<>> THEN current_index' = 0
                ELSE current_index' < Len(account_ids')]_vars

\* C19 amended: the list refresh() installs is exactly the accounts that were
\* active, not forbidden and not disabled when refresh read the store (the
\* result of its query, which a later change of the store does not alter); when
\* it returns, every exhausted id, every key of rate_limited and every account
\* a session is bound to is in the list, and the cursor is smaller than the
\* list's length (0 for an empty list).
C19_AfterRefreshOfQuery ==
    [][\A t \in Tasks :
          /\ (task[t].pc = "ref_query" /\ task'[t] # task[t])
             => task'[t].ids = refresh_query
          /\ RefreshReturns(t)
             => /\ account_ids' = task[t].ids
                /\ exhausted' \subseteq Range(account_ids')
                /\ DOMAIN rate_limited' \subseteq Range(account_ids')
                /\ \A k \in DOMAIN session_bindings' :
                       session_bindings'[k] \in Range(account_ids')
                /\ DOMAIN binding_timestamps' = DOMAIN session_bindings'
                /\ IF account_ids' = <<>> THEN current_index' = 0
                   ELSE current_index' < Len(account_ids')]_vars

\* C19 witness: a refresh is about to install a list that lacks an exhausted
\* account and is not longer than the cursor.
C19_Witness ==
    \E t \in Tasks :
        /\ task[t].pc = "ref_lock"
        /\ lock = NoTask
        /\ current_index > 0
        /\ current_index >= Len(task[t].ids)
        /\ ~(exhausted \subseteq Range(task[t].ids))

\* The sessions other than fp that the bindings b give to account a.
LoadOfOthers(b, fp, a) == Cardinality({k \in DOMAIN b \ {fp} : b[k] = a})

\* Session fp has no binding, or one that has not been used for the TTL.
NoValidBinding(fp) ==
    \/ fp \notin DOMAIN session_bindings
    \/ now - binding_timestamps[fp] > BINDING_TTL

\* C20: a session without valid binding is bound, by a get_current(request) in
\* a sticky mode, to the account with the fewest bindings among the
\* non-exhausted accounts of the list (among all of them when every account is
\* exhausted), the earliest in list order among the equally loaded.
C20_LeastLoadedAssigned ==
    [][\A t \in Tasks :
          LET fp == task[t].gc_fp
              free == {b \in Range(account_ids) : b \notin exhausted}
              cand == IF free = {} THEN Range(account_ids) ELSE free
          IN (StickyCallLocks(t) /\ account_ids # <<>> /\ NoValidBinding(fp))
             => /\ fp \in DOMAIN session_bindings'
                /\ LET a == session_bindings'[fp]
                       load(b) == LoadOfOthers(session_bindings', fp, b)
                   IN /\ a \in cand
                      /\ \A b \in cand :
                            \/ load(a) < load(b)
                            \/ /\ load(a) = load(b)
                               /\ IndexOf(account_ids, a) <= IndexOf(account_ids, b)]_vars

\* C20 witness: a session without binding calls get_current in a sticky mode
\* while another session is bound to the first account of the list and no
\* account is exhausted, so that the least loaded account is not the first.
C20_Witness ==
    \E t \in Tasks :
        /\ task[t].pc = "gc_lock"
        /\ lock = NoTask
        /\ task[t].mode \in StickyModes
        /\ task[t].gc_fp # NoSession
        /\ task[t].gc_fp \notin DOMAIN session_bindings
        /\ Len(account_ids) = NumAccounts
        /\ exhausted = {}
        /\ \E k \in DOMAIN session_bindings :
              /\ session_bindings[k] = account_ids[1]
              /\ now - binding_timestamps[k] <= BINDING_TTL

\* C21: rotate(id, reason) is idempotent: for every rotate about to take the
\* lock, marking twice with the same id and reason at the same instant gives
\* the pool state (exhausted, rate_limited, cursor, bindings) of marking once.
C21_RotateIdempotent ==
    \A t \in Tasks :
        task[t].pc = "rot_lock"
        => LET once == rotate_mark(PoolState, task[t].account, task[t].reason, now)
           IN rotate_mark(once, task[t].account, task[t].reason, now) = once

\* Task t runs no start_proxy and no stop_proxy.
NoLifecycleCall(t) == task[t].pc \notin {"ref_query", "ref_lock", "start_serve", "stop_close"}

\* C22: there is at most one open shared client and at most one server that was
\* not told to exit, whatever the interleaving of start_proxy and stop_proxy
\* calls; and once the proxy is stopped and no call is in progress every client
\* a start created has been closed.
C22_OneClientOneServer ==
    /\ Cardinality(open_clients) <= 1
    /\ Cardinality(live_servers) <= 1
    /\ ((\A t \in Tasks : NoLifecycleCall(t)) /\ proxy_server = None) => open_clients = {}

\* The accounts for which the running cycle has invoked sync_account_info.
SyncInvoked == rf.synced \cup (IF rf.pc = "sync" THEN {rf.creds[rf.pos].account} ELSE {})

\* The cycle is through with the credentials of account a: it is at a's sync,
\* at a later account, or at its end.
AccountDone(a) ==
    /\ \E i \in DOMAIN rf.creds : rf.creds[i].account = a
    /\ \/ \A i \in DOMAIN rf.creds : rf.creds[i].account = a => i < rf.pos
       \/ rf.pc \in {"sync", "poll_sleep"} /\ rf.creds[rf.pos].account = a

\* C23: in a cycle, no refresh call for an account returns once the account's
\* sync has been invoked, sync is invoked for no account whose credentials the
\* cycle is still working on, and when the cycle is through with an account
\* its sync has been invoked if and only if one of its refreshes succeeded
\* (as long as the task has not been ended by a cancellation).
C23_SyncAfterRefreshes ==
    /\ [][\A c \in rf'.calls \ rf.calls : c.account \notin SyncInvoked]_vars
    /\ [](\A a \in db_accounts :
            rf.pc # "ended" =>
            /\ a \in SyncInvoked => AccountDone(a)
            /\ AccountDone(a)
               => (a \in SyncInvoked <=> \E c \in rf.calls : c.account = a /\ c.success))

\* C23 witness: the sync of an account is invoked after one of its refreshes
\* failed and another succeeded.
C23_Witness ==
    /\ rf.pc = "sync"
    /\ \E c, d \in rf.calls :
          /\ c.account = rf.creds[rf.pos].account
          /\ d.account = c.account
          /\ c.success
          /\ ~d.success

\* C24: every refresh call of a cycle but the first is preceded by a stagger
\* sleep made since the call before it.
C24_CallsStaggered == \A c \in rf.calls : c.n > 1 => c.staggered

\* The interval, in minutes, that the stored setting stands for.
StoredInterval ==
    LET v == db_settings["auto_refresh_interval"]
    IN IF v \in DOMAIN int /\ int[v] >= 1 THEN int[v] ELSE DEFAULT_INTERVAL

\* C25 (as stated): a refresh call is made only while auto_refresh_enabled is
\* "true", the toggle of the credential's kind is "true", the account is not
\* disabled and the credential's last_sync_at is absent or at least the
\* interval old; no call and no sync is made while the master flag is not "true".
C25_RefreshOnlyWhenDue ==
    [][/\ \A c \in rf'.calls \ rf.calls :
             /\ db_settings["auto_refresh_enabled"] = "true"
             /\ db_settings["auto_refresh_" \o (IF c.client_type = "gemini_cli"
                                                THEN "gemini" ELSE "antigravity")
                                         \o "_enabled"] = "true"
             /\ c.account \notin db_disabled
             /\ LET last == db_creds[<<c.account, c.client_type>>].last_sync_at
                IN last = 0 \/ now - last >= StoredInterval * 60
       /\ SyncInvoked' \ SyncInvoked # {} => db_settings["auto_refresh_enabled"] = "true"]_vars

\* C25 (amended): the conditions are those the cycle read: the master flag and
\* the toggles as the cycle's _get_setting calls returned them, the accounts and
\* the last_sync_at as the cycle's query returned them, the age taken at the
\* time of the query.
C25_RefreshOnlyWhenDueAsRead ==
    [][/\ \A c \in rf'.calls \ rf.calls :
             /\ rf.enabled
             /\ IF c.client_type = "gemini_cli" THEN rf.gemini ELSE rf.antigravity
             /\ \E i \in DOMAIN rf.creds :
                   /\ rf.creds[i].account = c.account
                   /\ rf.creds[i].client_type = c.client_type
                   /\ \/ rf.creds[i].last_sync_at = 0
                      \/ rf.t0 - rf.creds[i].last_sync_at >= rf.interval * 60
       /\ SyncInvoked' \ SyncInvoked # {} => rf.enabled
       /\ rf.pc = "get_setting" /\ rf.key = 1 /\ rf'.enabled
          => db_settings["auto_refresh_enabled"] = "true"
       /\ rf.pc = "load" /\ rf'.pc \notin {"load", "ended", "backoff"}
          => \A i \in DOMAIN rf'.creds :
                /\ rf'.creds[i].account \notin db_disabled
                /\ rf'.creds[i].last_sync_at =
                       db_creds[<<rf'.creds[i].account, rf'.creds[i].client_type>>].last_sync_at]_vars

\* C25 witness: with the gemini toggle read as off, the cycle has called the
\* refresh of an antigravity credential and of no other.
C25_Witness ==
    /\ rf.enabled
    /\ ~rf.gemini
    /\ rf.calls # {}
    /\ \A c \in rf.calls : c.client_type = "antigravity"

\* The credential the refresher is about to refresh, or is refreshing.
CurrentCred == <<rf.creds[rf.pos].account, rf.creds[rf.pos].client_type>>

\* C26: when a refresh call returns without success, the credential has
\* access_token and expires_at null if the token endpoint answered with error
\* invalid_grant or unauthorized_client, and otherwise (other error, transport
\* exception, no refresh token) has the access_token, expires_at and
\* last_sync_at it had; the failure comes back as a value: the call is logged
\* with success false and the scheduler goes on with its loop.
C26_FailureLeavesOrFreezes ==
    [][\A ans \in TokenAnswers :
          (RfRefresh(ans) /\ \E c \in rf'.calls \ rf.calls : ~c.success)
          => LET before == db_creds[CurrentCred]
                 after == db_creds'[CurrentCred]
             IN /\ IF /\ before.refresh_token
                      /\ ans.status \notin {"200", "exception"}
                      /\ ans.error \in {"invalid_grant", "unauthorized_client"}
                   THEN after.access_token = 0 /\ after.token_expires_at = 0
                   ELSE /\ after.access_token = before.access_token
                        /\ after.token_expires_at = before.token_expires_at
                        /\ after.last_sync_at = before.last_sync_at
                /\ rf'.pc \in {"stagger", "refresh", "sync", "poll_sleep"}]_vars

\* C26 witness: in one cycle a refresh failed and left its credential's token,
\* and another failed and left its credential without token.
C26_Witness ==
    \E c, d \in rf.calls :
        /\ ~c.success
        /\ ~d.success
        /\ db_creds[<<c.account, c.client_type>>].access_token = 0
        /\ db_creds[<<c.account, c.client_type>>].token_expires_at = 0
        /\ db_creds[<<d.account, d.client_type>>].access_token # 0

\* C27: a credential with access_token and expires_at null, as the freeze on
\* invalid_grant / unauthorized_client leaves it, gets no access token from a
\* step of the refresher.
C27_FrozenStaysFrozen ==
    [][\A id \in DOMAIN db_creds :
          (db_creds[id].access_token = 0 /\ db_creds[id].token_expires_at = 0 /\ rf' # rf)
          => db_creds'[id].access_token = 0]_vars

\* C28: a successful refresh leaves the credential with an expires_at that is
\* not null, is the time of the refresh plus the answer's expires_in, and is
\* not earlier than the expires_at stored before.
C28_ExpiryAdvances ==
    [][\A ans \in TokenAnswers :
          (RfRefresh(ans) /\ \E c \in rf'.calls \ rf.calls : c.success)
          => LET before == db_creds[CurrentCred].token_expires_at
                 after == db_creds'[CurrentCred].token_expires_at
             IN /\ after # 0
                /\ after = now + ans.expires_in
                /\ after >= before]_vars

\* C29: the refresher task has ended if and only if a cancellation has been
\* delivered to it: no failure inside a cycle ends it, and a cancellation ends
\* it at whatever await it is suspended.
C29_EndsIffCancelled == (rf.pc = "ended") <=> rf.cancelled

\* The entries of the successfully synced credentials of the last sync that
\* forbid the account: the reason is critical, and the entry is not one for
\* free-tier on an account that has a best tier other than free-tier.
ForbiddingEntries ==
    {e \in UNION {Range(last_sync.creds[i].result.ineligible_tiers) :
                    i \in {j \in DOMAIN last_sync.creds : last_sync.creds[j].result.success}} :
        /\ e.reasonCode \in {"DASHER_USER", "INELIGIBLE_ACCOUNT", "RESTRICTED_NETWORK",
                              "UNKNOWN_LOCATION", "UNSUPPORTED_LOCATION"}
        /\ ~(e.tierId = "free-tier" /\ last_sync.account.tier \notin {"none", "free-tier"})}

\* C30: after sync_account_info, is_forbidden is true if and only if there is
\* such an entry; then status_reason is the reason of one of these entries,
\* unless VALIDATION_REQUIRED applies (an entry with that reason, or a sync
\* result that asks for validation), which status_reason then says.
C30_ForbiddenIffCriticalEntry ==
    last_sync.called
    => /\ last_sync.account.is_forbidden <=> ForbiddingEntries # {}
       /\ last_sync.account.is_forbidden
          => IF \/ \E i \in DOMAIN last_sync.creds :
                      /\ last_sync.creds[i].result.success
                      /\ \E e \in Range(last_sync.creds[i].result.ineligible_tiers) :
                            e.reasonCode = "VALIDATION_REQUIRED"
                \/ \E i \in DOMAIN last_sync.creds :
                      last_sync.creds[i].result.validation_required # "false"
             THEN last_sync.account.status_reason = "VALIDATION_REQUIRED"
             ELSE last_sync.account.status_reason \in {e.reasonCode : e \in ForbiddingEntries}

\* C30 witness: an account whose best tier is standard-tier was synced with a
\* critical entry for free-tier and a critical entry for another tier, and is
\* forbidden.
C30_Witness ==
    /\ last_sync.called
    /\ last_sync.account.tier = "standard-tier"
    /\ last_sync.account.is_forbidden
    /\ \E e \in ForbiddingEntries : e.tierId = "standard-tier"
    /\ \E i \in DOMAIN last_sync.creds :
          /\ last_sync.creds[i].result.success
          /\ \E e \in Range(last_sync.creds[i].result.ineligible_tiers) :
                e.tierId = "free-tier" /\ e.reasonCode = "UNSUPPORTED_LOCATION"

\* sync_account_info detected VALIDATION_REQUIRED: an ineligible-tier entry of
\* a successful result has that reason, or a successful result carries
\* validation_required (set by _sync_gemini_cli on a 403 of retrieveUserQuota).
DetectsValidation ==
    \E i \in DOMAIN last_sync.creds :
       /\ last_sync.creds[i].result.success
       /\ \/ \E e \in Range(last_sync.creds[i].result.ineligible_tiers) :
                e.reasonCode = "VALIDATION_REQUIRED"
          \/ last_sync.creds[i].result.validation_required # "false"

\* C31: whenever a sync detects VALIDATION_REQUIRED the account ends with
\* status_reason = VALIDATION_REQUIRED, whatever critical reasons are present
\* and in whatever order, and status_details holds a validation_url.
C31_ValidationWinsWithUrl ==
    (last_sync.called /\ DetectsValidation)
    => /\ last_sync.account.status_reason = "VALIDATION_REQUIRED"
       /\ last_sync.account.status_details = "url"

\* The quota source sync_account_info selects: the gemini_cli credential's
\* buckets when it has any, else the antigravity credential's.
SelectedFractions ==
    LET data == IF last_sync.creds[1].quota_data # <<>> THEN last_sync.creds[1].quota_data
                ELSE last_sync.creds[2].quota_data
    IN {data[i].remainingFraction : i \in DOMAIN data} \ {NoFraction}

C40_FailedSyncKeepsStatus ==
    (/\ last_sync.called
     /\ \A i \in DOMAIN last_sync.creds :
           last_sync.creds[i].result.synced /\ ~last_sync.creds[i].result.success)
    => /\ last_sync.account.is_forbidden = last_sync.before.is_forbidden
       /\ last_sync.account.status_reason = last_sync.before.status_reason
       /\ (last_sync.account.ineligible_tiers # <<>>) = last_sync.before.has_ineligible

\* C33: onboarding terminates: the operation is polled at most 12 times, each
\* poll after a sleep of 5 s (60 s of sleeping at most); when every one of the
\* 12 polls answered done=false the sync returns success and the credential's
\* project_id is the cached one (none when none was cached); and every call
\* of the sync returns.
C33_OnboardingTerminates ==
    /\ [](onboard.pc # "idle"
          => /\ onboard.polls <= MAX_POLLS
             /\ onboard.slept <= MAX_POLLS * POLL_SECS
             /\ onboard.slept >= onboard.polls * POLL_SECS
             /\ (onboard.pc = "returned" /\ onboard.undone = MAX_POLLS)
                => /\ onboard.success
                   /\ onboard.project_id = onboard.cached
                   /\ onboard.result_project = onboard.cached)
    /\ (onboard.pc = "load" ~> onboard.pc = "returned")

\* C33 witnesses: a sync returned after twelve polls that all answered
\* done=false, for a credential without a cached project.
C33_Witness ==
    /\ onboard.pc = "returned"
    /\ onboard.undone = MAX_POLLS
    /\ onboard.cached = "none"
    /\ onboard.slept = 60

\* The filter the specification describes: at every schema level the
\* allowlisted keywords are kept and the others dropped; the value of
\* "properties" maps each property name to its schema, filtered the same way.
RECURSIVE allowlisted(_)
allowlisted(schema) ==
    Dict({<<kv[1],
            CASE kv[1] = "properties" /\ kv[2][1] = "dict" ->
                    Dict({<<prop[1], IF prop[2][1] = "dict" THEN allowlisted(prop[2])
                                     ELSE prop[2]>> : prop \in kv[2][2]})
              [] kv[2][1] = "dict" -> allowlisted(kv[2])
              [] kv[2][1] = "list" ->
                    List([i \in DOMAIN kv[2][2] |->
                             IF kv[2][2][i][1] = "dict" THEN allowlisted(kv[2][2][i])
                             ELSE kv[2][2][i]])
              [] OTHER -> kv[2]>> :
          kv \in {p \in schema[2] : p[1] \in ALLOWED_KEYS}})

\* C34: the schema sent upstream keeps exactly the allowlisted keywords at
\* every nesting level and drops every other keyword, and each property
\* declared under "properties" is kept under its own name with its schema
\* filtered in the same way.
C34_SchemaKeepsProperties ==
    tool_schema.stage = "sent" => tool_schema.parameters = allowlisted(tool_schema.given)

\* C35: schema filtering is idempotent: filtering the filtered schema gives the
\* filtered schema.
C35_FilterIdempotent ==
    tool_schema.stage = "sent"
    => clean_schema_for_gemini(tool_schema.parameters) = tool_schema.parameters

\* C35 witness: a schema with extension keywords at two levels and a nested
\* object under an allowed key was filtered, and the filter changed it.
C35_Witness ==
    /\ tool_schema.stage = "sent"
    /\ tool_schema.parameters # tool_schema.given
    /\ \E p \in tool_schema.given[2] : p[1] = "additionalProperties"
    /\ \E p \in tool_schema.parameters[2] :
          /\ p[1] = "properties"
          /\ \E q \in p[2][2] : q[1] = "items" /\ q[2][2] = {<<"type", Atom("string")>>}
    /\ \E p \in tool_schema.given[2] :
          /\ p[1] = "properties"
          /\ \E q \in p[2][2] : q[1] = "items" /\ q[2][2] # {<<"type", Atom("string")>>}

\* The active rules of the call whose pattern equals the model or matches it
\* as a glob, and the order of the rules.
MatchingRules ==
    {id \in DOMAIN model_call.rules :
        /\ model_call.rules[id].is_active
        /\ \/ model_call.rules[id].pattern = model_call.model
           \/ fnmatch(model_call.model, model_call.rules[id].pattern)}

RuleBefore(a, b) ==
    \/ model_call.rules[a].priority < model_call.rules[b].priority
    \/ /\ model_call.rules[a].priority = model_call.rules[b].priority
       /\ model_call.rules[a].created_at <= model_call.rules[b].created_at

\* C36: apply_model_mapping(m) returns the target of the first active rule, in
\* (priority, created_at) order, whose pattern equals m or matches m as a
\* glob, together with m; when no active rule matches, m is returned
\* unchanged.
C36_FirstMatchingRuleWins ==
    model_call.stage = "returned"
    => IF MatchingRules = {}
       THEN model_call.ret.mapped = model_call.model
       ELSE \E id \in MatchingRules :
               /\ \A other \in MatchingRules : RuleBefore(id, other)
               /\ model_call.ret.mapped = model_call.rules[id].target
               /\ model_call.ret.original = model_call.model

\* The block open after the first k events of the stream: the indices started
\* and not stopped since.
OpenBlocks(k) ==
    {astream.out[i].index : i \in {j \in 1..k :
        /\ astream.out[j].type = "content_block_start"
        /\ \A l \in (j + 1)..k : ~(/\ astream.out[l].type = "content_block_stop"
                                      /\ astream.out[l].index = astream.out[j].index)}}

BlockStarts == {i \in DOMAIN astream.out : astream.out[i].type = "content_block_start"}

\* C37: a stream that ended normally is well-formed: message_start and ping
\* come first; every delta lies in the open block of its index, whose kind it
\* matches; at most one block is open at a time and none at the end; blocks
\* are opened with indices 0, 1, 2, ...; a tool call is one start, one
\* input_json_delta and one stop; message_delta (stop_reason tool_use iff a
\* tool_use block was emitted, else end_turn) and message_stop come last.
C37_AnthropicStreamWellFormed ==
    astream.pc = "ended"
    => LET out == astream.out
           n == Len(out)
       IN /\ out[1].type = "message_start" /\ out[2].type = "ping"
          /\ out[n - 1].type = "message_delta" /\ out[n].type = "message_stop"
          /\ out[n - 1].kind = IF \E i \in BlockStarts : out[i].kind = "tool_use"
                               THEN "tool_use" ELSE "end_turn"
          /\ \A k \in 3..(n - 2) :
                /\ out[k].type \in {"content_block_start", "content_block_delta",
                                     "content_block_stop"}
                /\ Cardinality(OpenBlocks(k)) <= 1
                /\ out[k].type = "content_block_start"
                   => /\ OpenBlocks(k - 1) = {}
                      /\ out[k].index = Cardinality({i \in BlockStarts : i < k})
                /\ out[k].type = "content_block_delta"
                   => /\ OpenBlocks(k) = {out[k].index}
                      /\ \E i \in BlockStarts :
                            /\ i < k /\ out[i].index = out[k].index
                            /\ out[k].kind = IF out[i].kind = "tool_use"
                                             THEN "input_json_delta" ELSE "text_delta"
                /\ out[k].type = "content_block_stop" => OpenBlocks(k - 1) = {out[k].index}
                /\ (out[k].type = "content_block_start" /\ out[k].kind = "tool_use")
                   => /\ out[k + 1].type = "content_block_delta"
                      /\ out[k + 2].type = "content_block_stop"
          /\ OpenBlocks(n) = {}

\* C37 witness: a stream ended after text, a tool call and text again: three
\* blocks, the stop_reason is tool_use.
C37_Witness ==
    /\ astream.pc = "ended"
    /\ \E i, j, k \in BlockStarts :
          /\ i < j /\ j < k
          /\ astream.out[i].kind = "text"
          /\ astream.out[j].kind = "tool_use"
          /\ astream.out[k].kind = "text" /\ astream.out[k].index = 2
    /\ astream.out[Len(astream.out) - 1].kind = "tool_use"

\* C38: the pool lock gives mutual exclusion in every interleaving: at most
\* one task is inside a locked section at a time (the sections of refresh and
\* rotate have no await; get_current's awaits _read_account), and the step
\* that frees the lock is a step of the task holding it, also when a
\* get_current is cancelled in its cache_first sleep or while it takes the
\* lock again.
C38_LockExcludes ==
    /\ [](Cardinality({t \in Tasks : task[t].pc = "gc_read"}) <= 1)
    /\ [][(lock # NoTask /\ lock' = NoTask) => task'[lock] # task[lock]]_vars

\* A get_current call of task t ends with an exception in this step.
GetCurrentRaises(t) ==
    /\ task[t].pc \in {"gc_lock", "gc_relock", "gc_read"}
    /\ task'[t].pc = "idle"
    /\ task'[t].result = "500"

\* The bindings made or kept in this step name members of the account list.
BindingsFromList ==
    \A k \in DOMAIN session_bindings' :
        (\/ k \notin DOMAIN session_bindings
         \/ session_bindings'[k] # session_bindings[k]
         \/ account_ids' # account_ids)
        => session_bindings'[k] \in Range(account_ids')

\* C39: _session_bindings and _binding_timestamps always have the same keys;
\* an account id a session is bound to was in the account list when the
\* binding was made or last kept by refresh; and get_current never raises
\* when it selects or re-assigns a binding, also after a refresh that ran
\* while the caller was suspended.
C39_BindingsSoundAndNoRaise ==
    /\ [](DOMAIN session_bindings = DOMAIN binding_timestamps)
    /\ [][BindingsFromList]_vars
    /\ [][\A t \in Tasks : ~GetCurrentRaises(t)]_vars

====
